---- MODULE Spec2Model ----
(***************************************************************************)
(* GloveIQ library import (scrapers/jbg/library_import.py).                *)
(*                                                                         *)
(* Text is modelled as a sequence of code points, so that str.strip, the   *)
(* "{source}:{id}" key format and Python's code-point ordering of sorted() *)
(* are computed, not assumed.  An empty cell (None) and blank text are the *)
(* same value None: every read of a cell in the code goes through _clean,  *)
(* _safe_float or _safe_json, which treat the two alike.                   *)
(*                                                                         *)
(* A cell holding serialized JSON is modelled by its parse result (or by   *)
(* "absent" / "bad" when there is no text / the text does not parse).      *)
(***************************************************************************)
EXTENDS Integers, Sequences, FiniteSets, TLC

VARIABLES
    workbook,   \* the workbook handed to build_exports (SpecExports)
    exports,    \* what build_exports returned for it   (SpecExports)
    phase,      \* "input" before the call, "built" after (SpecExports)
    input,      \* the input file: workbook content + stat() data
    clock,      \* wall clock in whole seconds (_now_iso, st_mtime)
    files,      \* the output directory: artifact name -> content
    run,        \* the latest run_import call: arguments and outcome
    log,        \* what the latest call did, and what happened since
    events,     \* environment events so far
    vresult,    \* what validate_workbook returned (SpecValidate)
    fncall,     \* a field normalizer and its arguments (SpecFields)
    fnret       \* what that call returned or raised    (SpecFields)

vars ==
    <<workbook, exports, phase, input, clock, files, run, log, events,
      vresult, fncall, fnret>>

(***************************************************************************)
(* Text                                                                    *)
(***************************************************************************)
None  == << >>
Space == <<32>>
Slash == <<47>>
Colon == <<58>>
sSS   == <<83, 83>>                \* "SS"
sJBG  == <<74, 66, 71>>            \* "JBG"
sGloveiq == <<103, 108, 111, 118, 101, 105, 113>>   \* "gloveiq"
sHttp    == <<104, 116, 116, 112, 58, 47, 47>>          \* "http://"
sHttps   == <<104, 116, 116, 112, 115, 58, 47, 47>>     \* "https://"

\* Words and sample texts
sEbay == <<101, 66, 97, 121>>    \* "eBay"
sUNK == <<85, 78, 75>>    \* "UNK"
sA2000 == <<65, 50, 48, 48, 48>>    \* "A2000"
sUnknown == <<85, 110, 107, 110, 111, 119, 110>>    \* "Unknown"
sVariant == <<118, 97, 114, 105, 97, 110, 116>>    \* "variant"
sArtifact == <<97, 114, 116, 105, 102, 97, 99, 116>>    \* "artifact"
s_rht == <<114, 104, 116>>    \* "rht"
s_right == <<114, 105, 103, 104, 116>>    \* "right"
s_RHT == <<82, 72, 84>>    \* "RHT"
s_lht == <<108, 104, 116>>    \* "lht"
s_left == <<108, 101, 102, 116>>    \* "left"
s_LHT == <<76, 72, 84>>    \* "LHT"
s_outfield == <<111, 117, 116, 102, 105, 101, 108, 100>>    \* "outfield"
s_of == <<111, 102>>    \* "of"
s_OF == <<79, 70>>    \* "OF"
s_infield == <<105, 110, 102, 105, 101, 108, 100>>    \* "infield"
s_if == <<105, 102>>    \* "if"
s_IF == <<73, 70>>    \* "IF"
s_pitch == <<112, 105, 116, 99, 104>>    \* "pitch"
s_catch == <<99, 97, 116, 99, 104>>    \* "catch"
s_1b == <<49, 98>>    \* "1b"
s_first == <<102, 105, 114, 115, 116>>    \* "first"
s_1B == <<49, 66>>    \* "1B"
s_middle == <<109, 105, 100, 100, 108, 101>>    \* "middle"
s_ss == <<115, 115>>    \* "ss"
s_2b == <<50, 98>>    \* "2b"
s_MI == <<77, 73>>    \* "MI"
s_utility == <<117, 116, 105, 108, 105, 116, 121>>    \* "utility"
s_Utility == <<85, 116, 105, 108, 105, 116, 121>>    \* "Utility"
s_Wilson == <<87, 105, 108, 115, 111, 110>>    \* "Wilson"
s_Rawlings == <<82, 97, 119, 108, 105, 110, 103, 115>>    \* "Rawlings"
s_Mizuno == <<77, 105, 122, 117, 110, 111>>    \* "Mizuno"
s_Easton == <<69, 97, 115, 116, 111, 110>>    \* "Easton"
s_Marucci == <<77, 97, 114, 117, 99, 99, 105>>    \* "Marucci"
s_Franklin == <<70, 114, 97, 110, 107, 108, 105, 110>>    \* "Franklin"
\* "Louisville Slugger"
s_Louisville_Slugger ==
    <<76, 111, 117, 105, 115, 118, 105, 108, 108, 101, 32, 83, 108, 117,
      103, 103, 101, 114>>
s_Nike == <<78, 105, 107, 101>>    \* "Nike"
s_Nokona == <<78, 111, 107, 111, 110, 97>>    \* "Nokona"
s_SSK == <<83, 83, 75>>    \* "SSK"
s_Adidas == <<65, 100, 105, 100, 97, 115>>    \* "Adidas"
s_All_Star == <<65, 108, 108, 32, 83, 116, 97, 114>>    \* "All Star"
s_Akadema == <<65, 107, 97, 100, 101, 109, 97>>    \* "Akadema"
s_44_Pro == <<52, 52, 32, 80, 114, 111>>    \* "44 Pro"
s_model_marker == <<91, 109, 111, 100, 101, 108, 58>>    \* "[model:"
s_softball == <<115, 111, 102, 116, 98, 97, 108, 108>>    \* "softball"
s_fastpitch == <<102, 97, 115, 116, 112, 105, 116, 99, 104>>    \* "fastpitch"
s_baseball == <<98, 97, 115, 101, 98, 97, 108, 108>>    \* "baseball"
s_unknown == <<117, 110, 107, 110, 111, 119, 110>>    \* "unknown"
s_custom == <<99, 117, 115, 116, 111, 109>>    \* "custom"
\* "one of one"
s_one_of_one ==
    <<111, 110, 101, 32, 111, 102, 32, 111, 110, 101>>
s_1_1 == <<49, 47, 49>>    \* "1/1"
s_game_used == <<103, 97, 109, 101, 32, 117, 115, 101, 100>>    \* "game used"
\* "player issued"
s_player_issued ==
    <<112, 108, 97, 121, 101, 114, 32, 105, 115, 115, 117, 101, 100>>
s_modified == <<109, 111, 100, 105, 102, 105, 101, 100>>    \* "modified"
s_re_lace == <<114, 101, 45, 108, 97, 99, 101>>    \* "re-lace"
s_relace == <<114, 101, 108, 97, 99, 101>>    \* "relace"
\* "JUSTBALLGLOVES"
s_JUSTBALLGLOVES ==
    <<74, 85, 83, 84, 66, 65, 76, 76, 71, 76, 79, 86, 69, 83>>
s_variant_prefix == <<118, 97, 114, 105, 97, 110, 116, 58>>    \* "variant:"
s_na == <<110, 97>>    \* "na"
s_unk == <<117, 110, 107>>    \* "unk"
\* "artifact:ss:"
s_artifact_ss_prefix ==
    <<97, 114, 116, 105, 102, 97, 99, 116, 58, 115, 115, 58>>
\* "artifact:SS:"
s_artifact_SS_prefix ==
    <<97, 114, 116, 105, 102, 97, 99, 116, 58, 83, 83, 58>>
\* "artifact:"
s_artifact_prefix ==
    <<97, 114, 116, 105, 102, 97, 99, 116, 58>>
s_size == <<115, 105, 122, 101>>    \* "size"
s_throw == <<116, 104, 114, 111, 119>>    \* "throw"
s_hand == <<104, 97, 110, 100>>    \* "hand"
s_position == <<112, 111, 115, 105, 116, 105, 111, 110>>    \* "position"
s_web == <<119, 101, 98>>    \* "web"
s_New == <<78, 101, 119>>    \* "New"
s_slash_p == <<47, 112>>    \* "/p"
s_jbg == <<106, 98, 103>>    \* "jbg"
\* "JustBallGloves"
s_JustBallGloves ==
    <<74, 117, 115, 116, 66, 97, 108, 108, 71, 108, 111, 118, 101, 115>>
s_Game_Used == <<71, 97, 109, 101, 32, 85, 115, 101, 100>>    \* "Game Used"
s_Game == <<71, 97, 109, 101>>    \* "Game"
s_Used == <<85, 115, 101, 100>>    \* "Used"
s_Custom == <<67, 117, 115, 116, 111, 109>>    \* "Custom"
\* "Wilson A2000"
s_Wilson_A2000 ==
    <<87, 105, 108, 115, 111, 110, 32, 65, 50, 48, 48, 48>>
\* "Game Used Wilson"
s_Game_Used_Wilson ==
    <<71, 97, 109, 101, 32, 85, 115, 101, 100, 32, 87, 105, 108, 115, 111,
      110>>
\* "Relace kit"
s_Relace_kit ==
    <<82, 101, 108, 97, 99, 101, 32, 107, 105, 116>>
\* "One of 1/1"
s_One_of_1_1 ==
    <<79, 110, 101, 32, 111, 102, 32, 49, 47, 49>>
\* "Customer return"
s_Customer_return ==
    <<67, 117, 115, 116, 111, 109, 101, 114, 32, 114, 101, 116, 117, 114,
      110>>
s_11_5 == <<49, 49, 46, 53>>    \* "11.5"
\* "Wilson 11 3/4 glove"
s_Wilson_11_3_4_glove ==
    <<87, 105, 108, 115, 111, 110, 32, 49, 49, 32, 51, 47, 52, 32, 103,
      108, 111, 118, 101>>
s_12_1_2 == <<49, 50, 45, 49, 47, 50>>    \* "12-1/2"
s_12_1_0 == <<49, 50, 32, 49, 47, 48>>    \* "12 1/0"
s_A2000_12_inches == <<65, 50, 48, 48, 48, 32, 49, 50, 34>>    \* "A2000 12""
s_glove == <<103, 108, 111, 118, 101>>    \* "glove"
s_199_99 == <<49, 57, 57, 46, 57, 57>>    \* "199.99"
s_12_padded == <<32, 49, 50, 32>>    \* " 12 "
\* "$1,299.50 USD"
s_1_299_50_USD ==
    <<36, 49, 44, 50, 57, 57, 46, 53, 48, 32, 85, 83, 68>>
s_minus_0_5 == <<45, 48, 46, 53>>    \* "-0.5"
s_n_a == <<110, 47, 97>>    \* "n/a"
s_commas == <<44, 44>>    \* ",,"
s_1_2_3 == <<49, 46, 50, 46, 51>>    \* "1.2.3"
\* "Right Hand Throw"
s_Right_Hand_Throw ==
    <<82, 105, 103, 104, 116, 32, 72, 97, 110, 100, 32, 84, 104, 114, 111,
      119>>
s_Both == <<66, 111, 116, 104>>    \* "Both"
s_Left_or_rIGHT ==
    <<76, 101, 102, 116, 32, 111, 114, 32, 114, 73, 71, 72, 84>>
    \* "Left or rIGHT"
s_Outfield == <<79, 117, 116, 102, 105, 101, 108, 100>>    \* "Outfield"
s_Pitcher == <<80, 105, 116, 99, 104, 101, 114>>    \* "Pitcher"
s_Catcher == <<67, 97, 116, 99, 104, 101, 114>>    \* "Catcher"
s_DH == <<68, 72>>    \* "DH"
\* "Wilson A2000 11.5"
s_Wilson_A2000_11_5 ==
    <<87, 105, 108, 115, 111, 110, 32, 65, 50, 48, 48, 48, 32, 49, 49, 46,
      53>>
\* "rawlings wilson"
s_rawlings_wilson ==
    <<114, 97, 119, 108, 105, 110, 103, 115, 32, 119, 105, 108, 115, 111,
      110>>
\* "Glove [Model: A2K]"
s_Glove_Model_A2K ==
    <<71, 108, 111, 118, 101, 32, 91, 77, 111, 100, 101, 108, 58, 32, 65,
      50, 75, 93>>
\* "Glove [model:  ] (PRO-204)"
s_Glove_model_PRO_204 ==
    <<71, 108, 111, 118, 101, 32, 91, 109, 111, 100, 101, 108, 58, 32, 32,
      93, 32, 40, 80, 82, 79, 45, 50, 48, 52, 41>>
\* "Mizuno (GMVP-1150)"
s_Mizuno_GMVP_1150 ==
    <<77, 105, 122, 117, 110, 111, 32, 40, 71, 77, 86, 80, 45, 49, 49, 53,
      48, 41>>
\* "Glove (pro12)"
s_Glove_pro12 ==
    <<71, 108, 111, 118, 101, 32, 40, 112, 114, 111, 49, 50, 41>>
\* "44 pro 12 1/0"
s_44_pro_12_1_0 ==
    <<52, 52, 32, 112, 114, 111, 32, 49, 50, 32, 49, 47, 48>>
s_SSK_padded == <<32, 83, 83, 75, 32>>    \* " SSK "
s_dollar_199_99 == <<36, 49, 57, 57, 46, 57, 57>>    \* "$199.99"
s_Right == <<82, 105, 103, 104, 116>>    \* "Right"
\* "Game Used Wilson A2000"
s_Game_Used_Wilson_A2000 ==
    <<71, 97, 109, 101, 32, 85, 115, 101, 100, 32, 87, 105, 108, 115, 111,
      110, 32, 65, 50, 48, 48, 48>>
s_Glove == <<71, 108, 111, 118, 101>>    \* "Glove"
\* "Fastpitch glove"
s_Fastpitch_glove ==
    <<70, 97, 115, 116, 112, 105, 116, 99, 104, 32, 103, 108, 111, 118,
      101>>
s_150 == <<49, 53, 48>>    \* "150"
\* "Wilson glove"
s_Wilson_glove ==
    <<87, 105, 108, 115, 111, 110, 32, 103, 108, 111, 118, 101>>
\* "Glove Size"
s_Glove_Size ==
    <<71, 108, 111, 118, 101, 32, 83, 105, 122, 101>>
s_11_1_2 == <<49, 49, 32, 49, 47, 50>>    \* "11 1/2"
\* "Throwing Hand"
s_Throwing_Hand ==
    <<84, 104, 114, 111, 119, 105, 110, 103, 32, 72, 97, 110, 100>>
\* "Custom Rawlings"
s_Custom_Rawlings ==
    <<67, 117, 115, 116, 111, 109, 32, 82, 97, 119, 108, 105, 110, 103,
      115>>
s_99 == <<57, 57>>    \* "99"
s_Size == <<83, 105, 122, 101>>    \* "Size"
\* "variant:wilson:a2000:11-5:rht"
s_variant_wilson_a2000_11_5_rht ==
    <<118, 97, 114, 105, 97, 110, 116, 58, 119, 105, 108, 115, 111, 110,
      58, 97, 50, 48, 48, 48, 58, 49, 49, 45, 53, 58, 114, 104, 116>>

RECURSIVE LStrip(_, _)
LStrip(s, ch) ==
    IF s # << >> /\ <<Head(s)>> = ch THEN LStrip(Tail(s), ch) ELSE s

RECURSIVE RStrip(_, _)
RStrip(s, ch) ==
    IF s # << >> /\ <<s[Len(s)]>> = ch
    THEN RStrip(SubSeq(s, 1, Len(s) - 1), ch)
    ELSE s

Strip(s, ch) == RStrip(LStrip(s, ch), ch)

\* _clean: None stays None, text is stripped, blank text becomes None.
_clean(v) == Strip(v, Space)

\* Python's `a or b` on Optional[str].
Or(a, b) == IF a # None THEN a ELSE b

StartsWith(s, p) == Len(s) >= Len(p) /\ SubSeq(s, 1, Len(p)) = p

\* Python's str `<`: code point by code point, a proper prefix first.
RECURSIVE LexLess(_, _)
LexLess(a, b) ==
    IF a = << >> THEN b # << >>
    ELSE IF b = << >> THEN FALSE
    ELSE IF a[1] # b[1] THEN a[1] < b[1]
    ELSE LexLess(Tail(a), Tail(b))

\* str.lower() and str.upper() on ASCII text.
Lower(s) ==
    [i \in 1 .. Len(s) |-> IF s[i] \in 65 .. 90 THEN s[i] + 32 ELSE s[i]]

Upper(s) ==
    [i \in 1 .. Len(s) |-> IF s[i] \in 97 .. 122 THEN s[i] - 32 ELSE s[i]]

\* Python's `sub in s`.
Contains(s, sub) ==
    \E i \in 0 .. Len(s) - Len(sub) : SubSeq(s, i + 1, i + Len(sub)) = sub

\* " ".join(parts)
RECURSIVE Join(_)
Join(parts) ==
    IF parts = << >> THEN << >>
    ELSE IF Len(parts) = 1 THEN parts[1]
    ELSE parts[1] \o Space \o Join(Tail(parts))

\* Mutant of Sorted: descending, as sorted(keys, reverse=True).
RECURSIVE SortedDescending(_)
SortedDescending(S) ==
    IF S = {} THEN << >>
    ELSE LET m == CHOOSE x \in S : \A y \in S : x = y \/ LexLess(y, x)
         IN  <<m>> \o SortedDescending(S \ {m})

\* sorted(keys): ascending by LexLess.
RECURSIVE Sorted(_)
Sorted(S) ==
    IF S = {} THEN << >>
    ELSE LET m == CHOOSE x \in S : \A y \in S : x = y \/ LexLess(x, y)
         IN  <<m>> \o Sorted(S \ {m})

(***************************************************************************)
(* Serialized JSON cells                                                   *)
(***************************************************************************)
NoMembers == [k \in {} |-> 0]
JAbsent   == [t |-> "absent", s |-> None, m |-> NoMembers, l |-> << >>]
JBad      == [t |-> "bad",    s |-> None, m |-> NoMembers, l |-> << >>]
JStr(s)   == [t |-> "str",    s |-> s,    m |-> NoMembers, l |-> << >>]
JObj(m)   == [t |-> "obj",    s |-> None, m |-> m,         l |-> << >>]
JList(l)  == [t |-> "list",   s |-> None, m |-> NoMembers, l |-> l]

_safe_json(v, fallback) == IF v.t \in {"absent", "bad"} THEN fallback ELSE v

\* dict.get(key, default) on a parsed JSON object.
Get(obj, key, default) == IF key \in DOMAIN obj.m THEN obj.m[key] ELSE default

\* _clean applied to a JSON member that is text (None for a missing member).
CleanJson(v) == IF v.t = "str" THEN _clean(v.s) ELSE None

RECURSIVE Dedup(_, _)
Dedup(us, seen) ==
    IF us = << >> THEN << >>
    ELSE LET u == _clean(Head(us))
         IN  IF u = None \/ ~(StartsWith(u, sHttp) \/ StartsWith(u, sHttps))
             THEN Dedup(Tail(us), seen)
             ELSE IF u \in seen THEN Dedup(Tail(us), seen)
             ELSE <<u>> \o Dedup(Tail(us), seen \cup {u})

\* Mutant of _norm_images: a URL seen before is kept again.
NormImagesKeepingRepeats(v) ==
    LET arr == _safe_json(v, JList(<< >>))
    IN  IF arr.t # "list" THEN << >>
        ELSE SelectSeq([i \in 1 .. Len(arr.l) |-> _clean(arr.l[i])],
                       LAMBDA u : /\ u # None
                                  /\ (StartsWith(u, sHttp)
                                      \/ StartsWith(u, sHttps)))

_norm_images(v) ==
    LET arr == _safe_json(v, JList(<< >>))
    IN  IF arr.t # "list" THEN << >> ELSE Dedup(arr.l, {})

(***************************************************************************)
(* A call of one field function, for the specification of the pure         *)
(* functions (SpecFields)                                                  *)
(***************************************************************************)
NoCall   == [fn |-> "", args |-> << >>]
NoReturn == [raised |-> FALSE, value |-> << >>]
Value(v) == [raised |-> FALSE, value |-> v]

(***************************************************************************)
(* Numbers.  A float is the pair <<n, d>> of its value n/d in lowest terms *)
(* (d > 0), and None when there is none.  Only plain decimal notation is   *)
(* read (an optional sign, digits, at most one point); exponents, "inf",   *)
(* "nan" and digit-group underscores are not modelled.                     *)
(***************************************************************************)
Dot   == <<46>>
Dash  == <<45>>

IsDigit(c) == c \in 48 .. 57

RECURSIVE Gcd(_, _)
Gcd(a, b) == IF b = 0 THEN a ELSE Gcd(b, a % b)

Abs(n) == IF n < 0 THEN 0 - n ELSE n

Ratio(n, d) == LET g == Gcd(Abs(n), d) IN <<n \div g, d \div g>>

RECURSIVE Pow10(_)
Pow10(k) == IF k = 0 THEN 1 ELSE 10 * Pow10(k - 1)

\* int() of a run of digits (0 for the empty run).
RECURSIVE DigitsValue(_)
DigitsValue(ds) ==
    IF ds = << >> THEN 0
    ELSE 10 * DigitsValue(SubSeq(ds, 1, Len(ds) - 1)) + (ds[Len(ds)] - 48)

\* The text float() accepts: digits with at most one point, at least one
\* digit, an optional sign, blanks around it.
Unsigned(s) ==
    LET t == Strip(s, Space)
    IN  IF t # << >> /\ t[1] \in {43, 45} THEN Tail(t) ELSE t

IsFloatText(s) ==
    LET u == Unsigned(s)
    IN  /\ \A i \in 1 .. Len(u) : IsDigit(u[i]) \/ <<u[i]>> = Dot
        /\ \E i \in 1 .. Len(u) : IsDigit(u[i])
        /\ Cardinality({i \in 1 .. Len(u) : <<u[i]>> = Dot}) <= 1

\* float(s) for a text s with IsFloatText(s).
Float(s) ==
    LET t      == Strip(s, Space)
        u      == Unsigned(s)
        digits == SelectSeq(u, IsDigit)
        points == {i \in 1 .. Len(u) : <<u[i]>> = Dot}
        places == IF points = {} THEN 0
                  ELSE Len(u) - (CHOOSE i \in points : TRUE)
        n      == DigitsValue(digits)
    IN  Ratio(IF t[1] = 45 THEN 0 - n ELSE n, Pow10(places))

\* re.search(r"([\d,]+(?:\.\d+)?)", s).group(1), None without a match: the
\* leftmost longest run of digits and commas, and a point with the digits
\* after it when they follow.
RECURSIVE RunEnd(_, _, _)
RunEnd(s, i, class) ==
    IF i <= Len(s) /\ s[i] \in class THEN RunEnd(s, i + 1, class) ELSE i

Digits == 48 .. 57

NumberIn(s) ==
    LET starts == {i \in 1 .. Len(s) : s[i] \in Digits \cup {44}}
    IN  IF starts = {} THEN None
        ELSE LET i == CHOOSE k \in starts : \A j \in starts : k <= j
                 e == RunEnd(s, i, Digits \cup {44})
                 f == IF e + 1 <= Len(s) /\ <<s[e]>> = Dot /\ IsDigit(s[e + 1])
                      THEN RunEnd(s, e + 1, Digits)
                      ELSE e
             IN  SubSeq(s, i, f - 1)

\* str.replace(",", "")
WithoutCommas(s) == SelectSeq(s, LAMBDA c : c # 44)

\* _safe_float (lines 133-148) of a cell holding text or nothing.
_safe_float(v) ==
    IF v = None THEN None
    ELSE IF IsFloatText(v) THEN Float(v)
    ELSE LET s == _clean(v)
         IN  IF s = None THEN None
             ELSE LET m == NumberIn(s)
                  IN  IF m = None THEN None
                      ELSE IF IsFloatText(WithoutCommas(m))
                      THEN Float(WithoutCommas(m))
                      ELSE None

\* str(x) of a float: the integer part, a point, and the decimals (at least
\* one).  Exact for a value with finitely many decimals; a repeating
\* expansion is cut after 16 decimals where Python rounds to the nearest
\* double.
RECURSIVE IntDigits(_)
IntDigits(n) ==
    IF n < 10 THEN <<48 + n>> ELSE IntDigits(n \div 10) \o <<48 + (n % 10)>>

RECURSIVE FracDigits(_, _, _)
FracDigits(r, d, k) ==
    IF r = 0 \/ k = 0 THEN << >>
    ELSE <<48 + ((10 * r) \div d)>> \o FracDigits((10 * r) % d, d, k - 1)

FloatStr(x) ==
    LET a    == Abs(x[1])
        frac == FracDigits(a % x[2], x[2], 16)
    IN  (IF x[1] < 0 THEN Dash ELSE << >>)
        \o IntDigits(a \div x[2]) \o Dot
        \o (IF frac = << >> THEN <<48>> ELSE frac)

(***************************************************************************)
(* Field normalizers (lines 231-332).  One that can raise returns          *)
(* Value(v) or Raise.                                                      *)
(***************************************************************************)
Raise == [raised |-> TRUE, value |-> << >>]

\* Mutant of _norm_throw: left is looked for before right.
NormThrowLeftFirst(v) ==
    LET s == Lower(_clean(v))
    IN  IF s = << >> THEN None
        ELSE IF Contains(s, s_lht) \/ Contains(s, s_left) THEN s_LHT
        ELSE IF Contains(s, s_rht) \/ Contains(s, s_right) THEN s_RHT
        ELSE sUNK

_norm_throw(v) ==
    LET s == Lower(_clean(v))
    IN  IF s = << >> THEN None
        ELSE IF Contains(s, s_rht) \/ Contains(s, s_right) THEN s_RHT
        ELSE IF Contains(s, s_lht) \/ Contains(s, s_left) THEN s_LHT
        ELSE sUNK

_norm_position(v) ==
    LET s == Lower(_clean(v))
    IN  IF s = << >> THEN None
        ELSE IF Contains(s, s_outfield) \/ s = s_of THEN s_OF
        ELSE IF Contains(s, s_infield) \/ s = s_if THEN s_IF
        ELSE IF Contains(s, s_pitch) THEN <<80>>
        ELSE IF Contains(s, s_catch) THEN <<67>>
        ELSE IF Contains(s, s_1b) \/ Contains(s, s_first) THEN s_1B
        ELSE IF Contains(s, s_middle) \/ Contains(s, s_ss)
                \/ Contains(s, s_2b) THEN s_MI
        ELSE IF Contains(s, s_utility) THEN s_Utility
        ELSE _clean(v)

\* The index after the blanks that start at index i.
SkipBlanks(s, i) == RunEnd(s, i, {32})

DigitAt(s, i) == i >= 1 /\ i <= Len(s) /\ IsDigit(s[i])

CharAt(s, i, c) == i >= 1 /\ i <= Len(s) /\ s[i] = c

Leftmost(S) == CHOOSE k \in S : \A j \in S : k <= j

\* (\d{1,2}\.\d{1,2}) matched at index i: where the match ends (0: no match).
DecimalAt(s, i) ==
    LET p == IF DigitAt(s, i + 1) THEN i + 2 ELSE i + 1
    IN  IF DigitAt(s, i) /\ CharAt(s, p, 46) /\ DigitAt(s, p + 1)
        THEN IF DigitAt(s, p + 2) THEN p + 3 ELSE p + 2
        ELSE 0

\* (\d{1,2})\s*[\-\s]\s*(\d)\s*/\s*(\d) matched at index i: the three groups
\* as numbers (<< >>: no match).  After the one or two digits come blanks
\* with at most one dash among them, at least one character in all.
FractionAt(s, i) ==
    LET p  == IF DigitAt(s, i + 1) THEN i + 2 ELSE i + 1
        q  == SkipBlanks(s, p)
        g2 == IF CharAt(s, q, 45) THEN SkipBlanks(s, q + 1)
              ELSE IF q > p THEN q ELSE 0
        t  == SkipBlanks(s, g2 + 1)
        g3 == SkipBlanks(s, t + 1)
    IN  IF /\ DigitAt(s, i) /\ g2 # 0 /\ DigitAt(s, g2)
           /\ CharAt(s, t, 47) /\ DigitAt(s, g3)
        THEN <<DigitsValue(SubSeq(s, i, p - 1)), s[g2] - 48, s[g3] - 48>>
        ELSE << >>

\* (\d{1,2}(?:\.\d+)?)\s*\" matched at index i: where group 1 ends (0: no
\* match).
InchesAt(s, i) ==
    LET p == IF DigitAt(s, i + 1) THEN i + 2 ELSE i + 1
        f == IF CharAt(s, p, 46) /\ DigitAt(s, p + 1)
             THEN RunEnd(s, p + 1, Digits) ELSE p
    IN  IF DigitAt(s, i) /\ CharAt(s, SkipBlanks(s, f), 34) THEN f ELSE 0

\* _extract_size_in (lines 263-276).  Line 272 divides by group 3 as it is.
_extract_size_in(text) ==
    LET s  == _clean(text)
        m1 == {i \in 1 .. Len(s) : DecimalAt(s, i) # 0}
        m2 == {i \in 1 .. Len(s) : FractionAt(s, i) # << >>}
        m3 == {i \in 1 .. Len(s) : InchesAt(s, i) # 0}
    IN  IF s = None THEN Value(None)
        ELSE IF m1 # {}
        THEN Value(_safe_float(SubSeq(s, Leftmost(m1),
                                      DecimalAt(s, Leftmost(m1)) - 1)))
        ELSE IF m2 # {}
        THEN LET g == FractionAt(s, Leftmost(m2))
             IN  IF g[3] = 0 THEN Raise
                 ELSE Value(Ratio(g[1] * g[3] + g[2], g[3]))
        ELSE IF m3 # {}
        THEN Value(_safe_float(SubSeq(s, Leftmost(m3),
                                      InchesAt(s, Leftmost(m3)) - 1)))
        ELSE Value(None)

KNOWN_BRANDS ==
    << s_Wilson, s_Rawlings, s_Mizuno, s_Easton, s_Marucci,
       s_Franklin, s_Louisville_Slugger, s_Nike, s_Nokona, s_SSK,
       s_Adidas, s_All_Star, s_Akadema, s_44_Pro >>

_infer_brand(title, explicit) ==
    LET t    == Lower(_clean(title))
        hits == {k \in 1 .. Len(KNOWN_BRANDS) :
                    Contains(t, Lower(KNOWN_BRANDS[k]))}
    IN  IF _clean(explicit) # None THEN _clean(explicit)
        ELSE IF hits # {} THEN KNOWN_BRANDS[Leftmost(hits)]
        ELSE None

\* \[Model:\s*([^\]]+)\] with re.I, matched at index i: the group, cleaned
\* (<<0>>: no match).  The group is what stands between the marker and the
\* next "]", which must be at least one character.
ModelMarkerAt(t, i) ==
    LET p      == i + 7
        closes == {e \in p .. Len(t) : t[e] = 93}
    IN  IF /\ p <= Len(t) + 1
           /\ Lower(SubSeq(t, i, p - 1)) = s_model_marker
           /\ closes # {} /\ Leftmost(closes) > p
        THEN _clean(SubSeq(t, p, Leftmost(closes) - 1))
        ELSE <<0>>

CodeChars == (65 .. 90) \cup Digits \cup {45}

\* \(([A-Z0-9\-]{5,})\)\s*$ on cleaned text: the group (None: no match).
TrailingCode(t) ==
    LET opens == {i \in 1 .. Len(t) - 1 :
                    /\ t[i] = 40
                    /\ \A k \in i + 1 .. Len(t) - 1 : t[k] \in CodeChars}
    IN  IF t # << >> /\ t[Len(t)] = 41 /\ opens # {}
           /\ Len(t) - 1 - Leftmost(opens) >= 5
        THEN SubSeq(t, Leftmost(opens) + 1, Len(t) - 1)
        ELSE None

_infer_model(title, explicit) ==
    LET t  == _clean(title)
        ms == {i \in 1 .. Len(t) : ModelMarkerAt(t, i) # <<0>>}
    IN  IF _clean(explicit) # None THEN _clean(explicit)
        ELSE IF t = None THEN None
        ELSE IF ms # {} THEN ModelMarkerAt(t, Leftmost(ms))
        ELSE _clean(TrailingCode(t))

\* _infer_sport; values: str(v) of the profile's values, in order.
_infer_sport(title, values) ==
    LET merged == Lower(_clean(title)) \o Space \o Lower(Join(values))
    IN  IF Contains(merged, s_softball) \/ Contains(merged, s_fastpitch)
        THEN s_softball
        ELSE s_baseball

\* re.sub(r"[^a-z0-9]+", "-", raw): every run of other characters becomes
\* one dash.
RECURSIVE Dashed(_)
Dashed(s) ==
    IF s = << >> THEN << >>
    ELSE IF s[1] \in (97 .. 122) \cup Digits
    THEN <<s[1]>> \o Dashed(Tail(s))
    ELSE IF Len(s) > 1 /\ s[2] \notin (97 .. 122) \cup Digits
    THEN Dashed(Tail(s))
    ELSE Dash \o Dashed(Tail(s))

_slug(s) ==
    Or(Strip(Dashed(Lower(Or(_clean(s), s_unknown))), Dash), s_unknown)

(***************************************************************************)
(* Record classifier (lines 335-344)                                       *)
(***************************************************************************)
artifact_markers ==
    << s_custom, s_one_of_one, s_1_1, s_game_used,
       s_player_issued, s_modified, s_re_lace, s_relace >>

FirstPartyTags == {sJBG, s_JUSTBALLGLOVES}

\* Mutant of _record_type_from_listing: the model code is looked at before
\* the markers.
RecordTypeModelCodeFirst(source, condition, model_code, title) ==
    LET text == Lower(Join(<<source, condition, model_code, title>>))
    IN  IF _clean(model_code) # None /\ _clean(model_code) # sUnknown
        THEN sVariant
        ELSE IF \E k \in 1 .. Len(artifact_markers) :
                   Contains(text, artifact_markers[k])
        THEN sArtifact
        ELSE IF Upper(source) \in FirstPartyTags THEN sVariant
        ELSE sArtifact

\* `x or ""` leaves text as it is and turns None into the empty text, which
\* is the same value here.
_record_type_from_listing(source, condition, model_code, title) ==
    LET text == Lower(Join(<<source, condition, model_code, title>>))
    IN  IF \E k \in 1 .. Len(artifact_markers) :
              Contains(text, artifact_markers[k])
        THEN sArtifact
        ELSE IF model_code # None /\ _clean(model_code) # None
                /\ _clean(model_code) # sUnknown
        THEN sVariant
        ELSE IF Upper(source) \in FirstPartyTags THEN sVariant
        ELSE sArtifact

(***************************************************************************)
(* Sheets.  Row r of a sheet is element r - 1 of its row sequence (row 1   *)
(* is the header).  Only the columns read on the way to the modelled       *)
(* record fields are kept.                                                 *)
(***************************************************************************)
BlankCatalogRow(row) ==
    /\ _clean(row.listing_id) = None
    /\ _clean(row.product_url) = None
    /\ _clean(row.title) = None
    /\ row.normalized_json.t = "absent"
    /\ row.images_json.t = "absent"

BlankJbgCatalogRow(row) ==
    /\ _clean(row.product_id) = None
    /\ _clean(row.product_url) = None
    /\ _clean(row.source) = None
    /\ _clean(row.catalog_title) = None

BlankDetailRow(row) ==
    /\ _clean(row.product_id) = None
    /\ _clean(row.product_url) = None
    /\ _clean(row.title) = None
    /\ row.images_json.t = "absent"

\* _iter_sheet_rows: (r, row) for every row with at least one non-blank cell.
\* blank[i]: every cell of data row i is blank.
_iter_sheet_rows(rows, blank) ==
    SelectSeq([i \in 1 .. Len(rows) |-> [r |-> i + 1, row |-> rows[i]]],
              LAMBDA e : ~blank[e.r - 1])

CatalogRows(rows) ==
    _iter_sheet_rows(rows, [i \in 1 .. Len(rows) |-> BlankCatalogRow(rows[i])])

JbgCatalogRows(rows) ==
    _iter_sheet_rows(rows,
                     [i \in 1 .. Len(rows) |-> BlankJbgCatalogRow(rows[i])])

DetailRows(rows) ==
    _iter_sheet_rows(rows, [i \in 1 .. Len(rows) |-> BlankDetailRow(rows[i])])

_stable_key(source, listing_id) == source \o Colon \o listing_id

NoListing ==
    [listing_pk |-> None, source |-> None, source_listing_id |-> None,
     url |-> None, title |-> None, images |-> << >>,
     glove_id |-> None, record_type |-> None, brand |-> None,
     model |-> None, model_code |-> None, size_in |-> None,
     throw_hand |-> None, player_position |-> None, web_type |-> None,
     sport |-> None, condition |-> None, price |-> None]

NoRaw ==
    [listing_pk |-> None, source |-> None, source_sheet |-> "",
     source_row |-> 0]

NoError == [msg |-> "", row |-> 0, id |-> None]

\* row.get(column): None for a column the sheet does not have.
Cell(row, column) == IF column \in DOMAIN row THEN row[column] ELSE None

JsonCell(row, column) ==
    IF column \in DOMAIN row THEN row[column] ELSE JAbsent

\* _safe_float of a JSON member that is text (None for a missing member).
FloatJson(v) == IF v.t = "str" THEN _safe_float(v.s) ELSE None

\* The "variant:..." identifier of lines 497 and 648.
VariantGloveId(brand, model_code, size_in, throw_hand) ==
    s_variant_prefix \o _slug(brand) \o Colon \o _slug(model_code) \o Colon
    \o _slug(IF size_in # None THEN FloatStr(size_in) ELSE s_na) \o Colon
    \o _slug(Or(throw_hand, s_unk))

\* Mutant of CatalogGloveId: the artifact identifier is slugged as well.
CatalogGloveIdSlugged(record_type, brand, model, size_in, throw_hand, listing_id) ==
    IF record_type = sVariant
    THEN VariantGloveId(brand, model, size_in, throw_hand)
    ELSE s_artifact_ss_prefix \o _slug(listing_id)

\* Lines 496-500.
CatalogGloveId(record_type, brand, model, size_in, throw_hand, listing_id) ==
    IF record_type = sVariant
    THEN VariantGloveId(brand, model, size_in, throw_hand)
    ELSE s_artifact_SS_prefix \o listing_id

\* Mutant of DetailGloveId: the source is part of the variant identifier.
DetailGloveIdBySource(record_type, source, brand, model_code, model, size_in, throw_hand, pid) ==
    IF record_type = sVariant
    THEN VariantGloveId(source, Or(model_code, model), size_in, throw_hand)
    ELSE s_artifact_prefix \o source \o Colon \o pid

\* Lines 647-651.
DetailGloveId(record_type, source, brand, model_code, model, size_in, throw_hand, pid) ==
    IF record_type = sVariant
    THEN VariantGloveId(brand, Or(model_code, model), size_in, throw_hand)
    ELSE s_artifact_prefix \o source \o Colon \o pid

\* Mutant of Defaulted: nothing is filled in.
NotDefaulted(v, default) == v

\* `v or "Unknown"`, `throw_hand or "UNK"` (lines 528-535, 673-681).
Defaulted(v, default) == Or(v, default)

(***************************************************************************)
(* build_exports, "SS / Catalog" loop body (lines 469-571)                 *)
(***************************************************************************)
\* The inferred fields of a Catalog row (lines 482-535).
CatalogFields(row, listing_id, title, norm_obj) ==
    LET member(k) == IF norm_obj.t = "obj" THEN Get(norm_obj, k, JAbsent)
                     ELSE JAbsent
        brand       == _infer_brand(title, _clean(Cell(row, "brand")))
        model       == _infer_model(title, _clean(Cell(row, "model")))
        size_in     == FloatJson(member("size_in"))
        throw_hand  == _norm_throw(CleanJson(member("throw_hand")))
        position    == _norm_position(CleanJson(member("position")))
        web_type    == CleanJson(member("web"))
        condition   == _clean(Cell(row, "condition"))
        record_type == _record_type_from_listing(sSS, condition, model, title)
    IN  [glove_id |-> CatalogGloveId(record_type, brand, model, size_in,
                                     throw_hand, listing_id),
         record_type |-> record_type,
         brand |-> Defaulted(brand, sUnknown),
         model |-> Defaulted(model, sUnknown),
         model_code |-> Defaulted(model, sUnknown),
         size_in |-> size_in,
         throw_hand |-> Defaulted(throw_hand, sUNK),
         player_position |-> Defaulted(position, sUnknown),
         web_type |-> Defaulted(web_type, sUnknown),
         sport |-> _infer_sport(title, << >>),
         condition |-> Defaulted(condition, sUnknown),
         price |-> _safe_float(Cell(row, "price"))]

CatalogEntry(e) ==
    LET row        == e.row
        listing_id == _clean(row.listing_id)
        url        == _clean(row.product_url)
        norm       == _safe_json(row.normalized_json, JObj(NoMembers))
        norm_obj   == IF norm.t = "obj"
                      THEN Get(norm, "norm", JObj(NoMembers))
                      ELSE JObj(NoMembers)
        \* line 481: norm_obj.get is evaluated only when the title cell is
        \* blank, and raises AttributeError when norm_obj is no dict.
        raises     == _clean(row.title) = None /\ norm_obj.t # "obj"
        title      == Or(_clean(row.title),
                         IF norm_obj.t = "obj"
                         THEN CleanJson(Get(norm_obj, "title", JAbsent))
                         ELSE None)
        pk         == _stable_key(sSS, listing_id)
    IN  IF listing_id = None \/ url = None
        THEN [kind |-> "error", raises |-> FALSE,
              error |-> [msg |-> "Catalog row missing listing_id/product_url",
                         row |-> e.r, id |-> None],
              listing |-> NoListing, raw |-> NoRaw]
        ELSE [kind |-> "listing", raises |-> raises, error |-> NoError,
              listing |->
                 [listing_pk |-> pk, source |-> sSS,
                  source_listing_id |-> listing_id, url |-> url,
                  title |-> title,
                  images |-> IF raises THEN << >>
                             ELSE _norm_images(row.images_json)]
                 @@ CatalogFields(row, listing_id, title, norm_obj),
              raw |-> [listing_pk |-> pk, source |-> sSS,
                       source_sheet |-> "Catalog", source_row |-> e.r]]

(***************************************************************************)
(* _build_jbg_catalog_index (lines 433-451): pid -> the last row with it   *)
(***************************************************************************)
NoCat ==
    [row |-> 0, product_url |-> None, source |-> None, catalog_title |-> None,
     catalog_price |-> None]

_build_jbg_catalog_index(rows) ==
    LET it    == JbgCatalogRows(rows)
        pidOf(i) == _clean(it[i].row.product_id)
        keyed == {i \in 1 .. Len(it) : pidOf(i) # None}
        last(pid) == CHOOSE i \in keyed :
                        /\ pidOf(i) = pid
                        /\ \A j \in keyed : pidOf(j) = pid => j <= i
    IN  [pid \in {pidOf(i) : i \in keyed} |->
            LET e == it[last(pid)]
            IN  [row |-> e.r,
                 product_url |-> _clean(e.row.product_url),
                 source |-> Or(_clean(e.row.source), sJBG),
                 catalog_title |-> _clean(e.row.catalog_title),
                 catalog_price |->
                    _safe_float(Cell(e.row, "catalog_price"))]]

(***************************************************************************)
(* build_exports, "JBG index + details" loop body (lines 581-721)          *)
(***************************************************************************)
\* A parsed glove_profile_json object keeps its members in document order,
\* each with its key as text: JItems(<<[k |-> key, v |-> value], ...>>).
JItems(items) == [t |-> "obj", s |-> None, m |-> NoMembers, l |-> items]

\* Lines 614-624: _clean(v) of the first member whose lower-cased key holds
\* one of the words, as long as nothing was found before it.
RECURSIVE ProfileText(_, _, _)
ProfileText(items, words, found) ==
    IF items = << >> THEN found
    ELSE LET lk == Lower(_clean(items[1].k))
         IN  ProfileText(Tail(items), words,
                         IF (\E w \in words : Contains(lk, w)) /\ found = None
                         THEN CleanJson(items[1].v)
                         ELSE found)

\* Line 627: _extract_size_in(size_text) or _extract_size_in(title), where
\* `first` is what the first call gave.
SizeOrElse(first, title) ==
    IF first.raised THEN Raise
    ELSE IF first.value \notin {None, <<0, 1>>} THEN first
    ELSE _extract_size_in(title)

SizeOr(size_text, title) == SizeOrElse(_extract_size_in(size_text), title)

\* Lines 647-684: the fields of the listing dict, from the values inferred
\* for the row.
DetailRecord(pid, source, record_type, brand, model_code, model, size, throw_hand, position, web_text, sport, condition, price) ==
    [raises |-> size.raised,
     fields |->
        [glove_id |-> DetailGloveId(record_type, source, brand, model_code,
                                    model, size.value, throw_hand, pid),
         record_type |-> record_type,
         brand |-> Defaulted(brand, sUnknown),
         model |-> Defaulted(model, sUnknown),
         model_code |-> Defaulted(model_code, sUnknown),
         size_in |-> size.value,
         throw_hand |-> Defaulted(throw_hand, sUNK),
         player_position |-> Defaulted(position, sUnknown),
         web_type |-> Defaulted(web_text, sUnknown),
         sport |-> sport,
         condition |-> condition,
         price |-> price]]

\* Lines 606-646: what is inferred from the profile items, the title and the
\* model_code cell.
DetailInferred(row, pid, source, title, cat, items, model_code, condition) ==
    DetailRecord(pid, source,
                 _record_type_from_listing(source, condition, model_code,
                                           title),
                 _infer_brand(title, None),
                 model_code,
                 Or(model_code, _infer_model(title, None)),
                 SizeOr(ProfileText(items, {s_size}, None), title),
                 _norm_throw(ProfileText(items, {s_throw, s_hand}, None)),
                 _norm_position(ProfileText(items, {s_position}, None)),
                 ProfileText(items, {s_web}, None),
                 _infer_sport(title, [i \in 1 .. Len(items) |-> items[i].v.s]),
                 condition,
                 \* lines 600-602: the catalog price when the row has none
                 Or(_safe_float(Cell(row, "price")), cat.catalog_price))

\* The members of a parsed glove_profile_json, none when it is no object.
ProfileItems(glove_profile) ==
    IF glove_profile.t = "obj" THEN glove_profile.l ELSE << >>

\* The inferred fields of a detail row (lines 599-684).
DetailFields(row, pid, source, title, cat) ==
    DetailInferred(row, pid, source, title, cat,
                   ProfileItems(_safe_json(JsonCell(row, "glove_profile_json"),
                                           JItems(<< >>))),
                   Or(_clean(Cell(row, "model_code")),
                      _infer_model(title, None)),
                   IF source = sJBG THEN s_New ELSE sUnknown)

\* Lines 664-721: the Listing Record and the raw row of a detail row.
DetailListing(e, pk, source, pid, url, title, inferred) ==
    [kind |-> "listing",
     raises |-> inferred.raises,
     error |-> NoError,
     listing |->
        [listing_pk |-> pk, source |-> source,
         source_listing_id |-> pid, url |-> url, title |-> title,
         images |-> _norm_images(e.row.images_json)]
        @@ inferred.fields,
     raw |-> [listing_pk |-> pk, source |-> source,
              source_sheet |-> "JBG_Detail_Enrichment",
              source_row |-> e.r]]

DetailEntry(e, jbg_catalog_idx) ==
    LET row        == e.row
        pid        == _clean(row.product_id)
        detail_url == _clean(row.product_url)
        cat        == IF pid \in DOMAIN jbg_catalog_idx
                      THEN jbg_catalog_idx[pid] ELSE NoCat
        source     == Or(_clean(cat.source), sJBG)
        url        == Or(detail_url, _clean(cat.product_url))
        title      == Or(_clean(row.title), _clean(cat.catalog_title))
    IN  IF pid = None
        THEN [kind |-> "error", raises |-> FALSE,
              error |-> [msg |-> "JBG_Detail_Enrichment row missing product_id",
                         row |-> e.r, id |-> None],
              listing |-> NoListing, raw |-> NoRaw]
        ELSE IF url = None
        THEN [kind |-> "error", raises |-> FALSE,
              error |-> [msg |-> "JBG listing missing URL in catalog+detail",
                         row |-> 0, id |-> pid],
              listing |-> NoListing, raw |-> NoRaw]
        ELSE DetailListing(e, _stable_key(source, pid), source, pid, url,
                           title,
                           DetailFields(row, pid, source, title, cat))

\* Every row's outcome, in processing order: Catalog rows, then detail rows.
RowOutcomes(wb) ==
    LET cat_it == CatalogRows(wb.Catalog)
        det_it == DetailRows(wb.JBG_Detail_Enrichment)
        idx    == _build_jbg_catalog_index(wb.JBG_Full_Catalog)
    IN  [i \in 1 .. Len(cat_it) |-> CatalogEntry(cat_it[i])]
        \o [i \in 1 .. Len(det_it) |-> DetailEntry(det_it[i], idx)]

(***************************************************************************)
(* build_exports: deduplicate and sort (lines 723-733)                     *)
(***************************************************************************)
KeysOf(recs) == {recs[i].listing_pk : i \in 1 .. Len(recs)}

\* Mutant of Retained: the first writer wins.
RetainedFirst(recs, k) ==
    recs[CHOOSE i \in 1 .. Len(recs) :
            /\ recs[i].listing_pk = k
            /\ \A j \in 1 .. Len(recs) : recs[j].listing_pk = k => i <= j]

\* dedup[l["listing_pk"]] = l, in list order: the last record with key k.
Retained(recs, k) ==
    recs[CHOOSE i \in 1 .. Len(recs) :
            /\ recs[i].listing_pk = k
            /\ \A j \in 1 .. Len(recs) : recs[j].listing_pk = k => j <= i]

\* Mutant of SortedKeys: dict order (first insertion), no sorted().
RECURSIVE InsertionOrder(_)
InsertionOrder(recs) ==
    IF recs = << >> THEN << >>
    ELSE LET k == Head(recs).listing_pk
         IN  <<k>> \o InsertionOrder(SelectSeq(Tail(recs),
                                        LAMBDA x : x.listing_pk # k))

\* sorted(dedup.keys())
SortedKeys(recs) == Sorted(KeysOf(recs))

\* Mutant of DedupSorted: sorted by key but every record kept.
KeepAllSorted(recs) ==
    LET keys == SortedKeys(recs)
        F[j \in 0 .. Len(keys)] ==
            IF j = 0 THEN << >>
            ELSE F[j - 1] \o SelectSeq(recs, LAMBDA x : x.listing_pk = keys[j])
    IN  F[Len(keys)]

\* [dedup[k] for k in sorted(dedup.keys())]
DedupSorted(recs) ==
    LET keys == SortedKeys(recs)
    IN  [j \in 1 .. Len(keys) |-> Retained(recs, keys[j])]

(***************************************************************************)
(* build_exports: media manifest (lines 735-761)                           *)
(***************************************************************************)
\* (b2_prefix or "gloveiq").strip().strip("/")
NormPrefix(b2_prefix) == Strip(_clean(Or(b2_prefix, sGloveiq)), Slash)

\* {index:02d}
TwoDigits(n) == IF n < 10 THEN <<48>> \o IntDigits(n) ELSE IntDigits(n)

\* Mutant of _image_target_key: the index is left out of the key.
KeyWithoutIndex(prefix, source, listing_id, index_1, image_url) ==
    [path |-> prefix \o Slash \o source \o Slash \o listing_id \o Slash
              \o <<95>>,
     hashed |-> image_url]

\* The key "{prefix}/{source}/{listing_id}/{index:02d}_{sha1[:10]}{ext}":
\* `path` is its text up to the underscore; sha1(url)[:10] and the extension
\* are functions of the URL alone and are kept as the URL they are taken of.
_image_target_key(prefix, source, listing_id, index_1, image_url) ==
    [path |-> prefix \o Slash \o source \o Slash \o listing_id \o Slash
              \o TwoDigits(index_1) \o <<95>>,
     hashed |-> image_url]

\* f"{l['source']}:{l['source_listing_id']}:{idx}"
MappingKey(l, idx) ==
    l.source \o Colon \o l.source_listing_id \o Colon \o IntDigits(idx)

\* Mutant of MediaRow: the images are counted from 0.
MediaRowZeroBased(prefix, l) ==
    [listing_pk |-> l.listing_pk,
     source |-> l.source,
     source_listing_id |-> l.source_listing_id,
     ordered_image_urls |-> l.images,
     image_mappings |->
        [idx \in 1 .. Len(l.images) |->
            [image_index |-> idx - 1,
             source_url |-> l.images[idx],
             target_storage_key |->
                _image_target_key(prefix, l.source, l.source_listing_id,
                                  idx - 1, l.images[idx]),
             mapping_key |-> MappingKey(l, idx - 1)]]]

\* Lines 738-761: the manifest row of one retained listing.
MediaRow(prefix, l) ==
    [listing_pk |-> l.listing_pk,
     source |-> l.source,
     source_listing_id |-> l.source_listing_id,
     ordered_image_urls |-> l.images,
     image_mappings |->
        [idx \in 1 .. Len(l.images) |->
            [image_index |-> idx,
             source_url |-> l.images[idx],
             target_storage_key |->
                _image_target_key(prefix, l.source, l.source_listing_id,
                                  idx, l.images[idx]),
             mapping_key |-> MappingKey(l, idx)]]]

(***************************************************************************)
(* build_exports (lines 454-792).  `now` is what _now_iso() returns.       *)
(* The workbook is structurally valid (all sheets and columns present).    *)
(***************************************************************************)
ErrorsCap == 500

\* Mutant of Take: nothing is cut.
TakeAll(s, n) == s

\* errors[:500]
Take(s, n) == IF Len(s) <= n THEN s ELSE SubSeq(s, 1, n)

NoReport ==
    [generated_at |-> 0, input_xlsx |-> "", rows_scanned |-> <<0, 0, 0>>,
     listings_total |-> 0, listings_by_source |-> << >>,
     listings_by_record_type |-> << >>, media_manifest_rows |-> 0,
     media_manifest_images_total |-> 0, errors_count |-> 0, errors |-> << >>,
     defaults_applied |-> [price_from_catalog |-> 0]]

Raised ==
    [raised |-> TRUE, listings |-> << >>, raw_rows |-> << >>,
     media_manifest |-> << >>, report |-> NoReport]

RECURSIVE SumLen(_)
SumLen(ls) == IF ls = << >> THEN 0 ELSE Len(Head(ls).images) + SumLen(Tail(ls))

\* Lines 600-604: the price of a detail row that passed both `continue`s is
\* taken from the catalog.
PriceFromCatalog(e, jbg_catalog_idx) ==
    LET pid == _clean(e.row.product_id)
        cat == IF pid \in DOMAIN jbg_catalog_idx
               THEN jbg_catalog_idx[pid] ELSE NoCat
    IN  /\ pid # None
        /\ Or(_clean(e.row.product_url), _clean(cat.product_url)) # None
        /\ _safe_float(Cell(e.row, "price")) = None
        /\ cat.catalog_price # None

\* defaults_applied: the key price_from_catalog and its count (0: no key).
DefaultsApplied(det_it, jbg_catalog_idx) ==
    [price_from_catalog |->
        Cardinality({i \in 1 .. Len(det_it) :
                        PriceFromCatalog(det_it[i], jbg_catalog_idx)})]

\* Lines 763-769: how many of the retained listings have each value of
\* `listing.get(field) or default`.
CountBy(listings_sorted, field, default) ==
    [v \in {Or(listings_sorted[i][field], default) :
                i \in 1 .. Len(listings_sorted)} |->
        Cardinality({i \in 1 .. Len(listings_sorted) :
                        Or(listings_sorted[i][field], default) = v})]

\* Lines 735-792: the manifest and the report of the retained listings.
Package(path, wb, listings_sorted, raw_sorted, errors, prefix, now) ==
    [raised |-> FALSE,
     listings |-> listings_sorted,
     raw_rows |-> raw_sorted,
     media_manifest |->
        [i \in 1 .. Len(listings_sorted) |->
            MediaRow(prefix, listings_sorted[i])],
     report |->
        [generated_at |-> now,
         input_xlsx |-> path,
         rows_scanned |->
            <<Len(CatalogRows(wb.Catalog)),
              Len(JbgCatalogRows(wb.JBG_Full_Catalog)),
              Len(DetailRows(wb.JBG_Detail_Enrichment))>>,
         listings_total |-> Len(listings_sorted),
         listings_by_source |-> CountBy(listings_sorted, "source", sUnknown),
         listings_by_record_type |->
            CountBy(listings_sorted, "record_type", sArtifact),
         \* len(media_rows): one manifest row per retained listing
         media_manifest_rows |-> Len(listings_sorted),
         media_manifest_images_total |-> SumLen(listings_sorted),
         errors_count |-> Len(errors),
         errors |-> Take(errors, ErrorsCap),
         defaults_applied |->
            DefaultsApplied(DetailRows(wb.JBG_Detail_Enrichment),
                            _build_jbg_catalog_index(wb.JBG_Full_Catalog))]]

\* Mutant of Appended: the loops end at the first row in error.
AppendedStopping(outcomes, kind) ==
    SelectSeq([i \in {j \in 1 .. Len(outcomes) :
                        \A k \in 1 .. j - 1 : outcomes[k].kind # "error"}
                 |-> outcomes[i]],
              LAMBDA o : o.kind = kind)

\* Lines 557, 560, 474/586/593: what the two loops appended.
Appended(outcomes, kind) == SelectSeq(outcomes, LAMBDA o : o.kind = kind)

\* Mutant of Collect: of the raw rows the first of each key is kept.
CollectFirstRaw(path, wb, made, failed, prefix, now) ==
    Package(path, wb,
            DedupSorted([i \in 1 .. Len(made) |-> made[i].listing]),
            [j \in 1 .. Len(SortedKeys([i \in 1 .. Len(made) |-> made[i].raw]))
                |-> RetainedFirst([i \in 1 .. Len(made) |-> made[i].raw],
                                  SortedKeys([i \in 1 .. Len(made) |->
                                                 made[i].raw])[j])],
            [i \in 1 .. Len(failed) |-> failed[i].error],
            prefix, now)

Collect(path, wb, made, failed, prefix, now) ==
    Package(path, wb,
            DedupSorted([i \in 1 .. Len(made) |-> made[i].listing]),
            DedupSorted([i \in 1 .. Len(made) |-> made[i].raw]),
            [i \in 1 .. Len(failed) |-> failed[i].error],
            prefix, now)

Export(path, wb, outcomes, prefix, now) ==
    IF \E i \in 1 .. Len(outcomes) : outcomes[i].raises
    THEN Raised
    ELSE Collect(path, wb, Appended(outcomes, "listing"),
                 Appended(outcomes, "error"), prefix, now)

build_exports(path, wb, b2_prefix, now) ==
    Export(path, wb, RowOutcomes(wb), NormPrefix(b2_prefix), now)

(***************************************************************************)
(* Inputs of the build_exports specification                               *)
(***************************************************************************)
MaxRows == 3      \* data rows of a workbook, all sheets together

id1   == <<49>>             \* "1"
id1sp == <<49, 32>>         \* "1 "
id2   == <<50>>             \* "2"
urlA  == <<97>>
urlB  == <<98>>
tA    == <<65>>
tB    == <<66>>
img1  == sHttp \o <<120>>   \* "http://x"
img2  == sHttps \o <<121>>  \* "https://y"
img3  == <<102, 116, 112>>  \* "ftp": no HTTP(S) scheme

CatalogRowSet ==
    { [listing_id |-> id1, product_url |-> urlA, title |-> tA,
       normalized_json |-> JAbsent, images_json |-> JList(<<img1, img1>>)],
      [listing_id |-> id1sp, product_url |-> urlA, title |-> tB,
       normalized_json |-> JBad, images_json |-> JAbsent],
      [listing_id |-> id2, product_url |-> urlA, title |-> None,
       normalized_json |->
          JObj([norm |-> JObj([title |-> JStr(tB)])]),
       images_json |-> JBad],
      [listing_id |-> None, product_url |-> urlA, title |-> tA,
       normalized_json |-> JAbsent, images_json |-> JAbsent],
      [listing_id |-> id2, product_url |-> urlB, title |-> None,
       normalized_json |-> JObj([norm |-> JStr(tA)]),
       images_json |-> JAbsent],
      [listing_id |-> None, product_url |-> None, title |-> None,
       normalized_json |-> JAbsent, images_json |-> JAbsent] }

JbgCatalogRowSet ==
    { [product_id |-> id1, product_url |-> urlB, source |-> None,
       catalog_title |-> tB],
      [product_id |-> id1sp, product_url |-> None, source |-> sSS,
       catalog_title |-> tA],
      [product_id |-> id2, product_url |-> urlB, source |-> sSS,
       catalog_title |-> None],
      [product_id |-> None, product_url |-> urlB, source |-> None,
       catalog_title |-> tA] }

DetailRowSet ==
    { [product_id |-> id1, product_url |-> urlA, title |-> tA,
       images_json |-> JList(<<img1, img3, img2>>)],
      [product_id |-> id1, product_url |-> None, title |-> None,
       images_json |-> JAbsent],
      [product_id |-> id2, product_url |-> None, title |-> tB,
       images_json |-> JAbsent],
      [product_id |-> None, product_url |-> urlA, title |-> tA,
       images_json |-> JAbsent],
      [product_id |-> None, product_url |-> None, title |-> None,
       images_json |-> JAbsent] }

Sizes ==
    {s \in (0 .. MaxRows) \X (0 .. MaxRows) \X (0 .. MaxRows) :
        s[1] + s[2] + s[3] <= MaxRows}

\* REQUIRED_SHEETS (lines 35-71), in dict order.
REQUIRED_SHEETS ==
    << [sheet |-> "Catalog",
        cols  |-> <<"listing_id", "product_url", "title", "price",
                    "currency", "condition", "brand", "model",
                    "images_json", "normalized_json">>],
       [sheet |-> "JBG_Full_Catalog",
        cols  |-> <<"product_id", "product_url", "source", "catalog_title",
                    "catalog_price", "thumb_url", "catalog_scraped_at">>],
       [sheet |-> "JBG_Detail_Enrichment",
        cols  |-> <<"product_id", "product_url", "detail_scraped_at",
                    "detail_status", "detail_error", "title", "price",
                    "model_code", "glove_profile_json",
                    "description_snippet", "images_json", "spec_json">>] >>

SheetNames == {REQUIRED_SHEETS[i].sheet : i \in 1 .. Len(REQUIRED_SHEETS)}

ColumnsOf(i) ==
    {REQUIRED_SHEETS[i].cols[k] : k \in 1 .. Len(REQUIRED_SHEETS[i].cols)}

FullHeaders ==
    [sh \in SheetNames |->
        ColumnsOf(CHOOSE i \in 1 .. Len(REQUIRED_SHEETS) :
                     REQUIRED_SHEETS[i].sheet = sh)]

\* A workbook: the data rows of the three sheets, wb.sheetnames, and for
\* each sheet the keys of _header_map (the non-blank header cells, cleaned).
Workbook(c, j, d) ==
    [Catalog |-> c, JBG_Full_Catalog |-> j, JBG_Detail_Enrichment |-> d,
     sheetnames |-> SheetNames, headers |-> FullHeaders]

Prefixes == {None, s_slash_p}     \* no prefix given, "/p"
PathX    == "in.xlsx"

(***************************************************************************)
(* validate_workbook (lines 175-228)                                       *)
(***************************************************************************)
VError(msg, sheet, column, r) ==
    [msg |-> msg, sheet |-> sheet, column |-> column, row |-> r]

RECURSIVE Flatten(_)
Flatten(ss) == IF ss = << >> THEN << >> ELSE Head(ss) \o Flatten(Tail(ss))

\* Lines 181-189, one turn of the loop over REQUIRED_SHEETS.
SheetErrors(wb, req) ==
    IF req.sheet \notin wb.sheetnames
    THEN <<VError("Missing required sheet", req.sheet, "", 0)>>
    ELSE LET absent == SelectSeq(req.cols,
                                 LAMBDA col : col \notin wb.headers[req.sheet])
         IN  [k \in 1 .. Len(absent) |->
                VError("missing required column", req.sheet, absent[k], 0)]

\* Lines 181-189: one error per missing sheet, one per missing column.
StructuralErrors(wb) ==
    Flatten([i \in 1 .. Len(REQUIRED_SHEETS) |->
                SheetErrors(wb, REQUIRED_SHEETS[i])])

\* Mutant of RowErrors: the URL is looked at only when the id is there.
RowErrorsFirstOnly(sheet, e, id, idcol) ==
    IF _clean(id) = None
    THEN <<VError("missing", sheet, idcol, e.r)>>
    ELSE IF _clean(e.row.product_url) = None
    THEN <<VError("missing", sheet, "product_url", e.r)>>
    ELSE << >>

\* The two checks made on one non-blank row (id first, then URL).
RowErrors(sheet, e, id, idcol) ==
    (IF _clean(id) = None
     THEN <<VError("missing", sheet, idcol, e.r)>> ELSE << >>)
    \o (IF _clean(e.row.product_url) = None
        THEN <<VError("missing", sheet, "product_url", e.r)>> ELSE << >>)

\* Lines 194-226.
RowLevelErrors(wb) ==
    LET c == CatalogRows(wb.Catalog)
        j == JbgCatalogRows(wb.JBG_Full_Catalog)
        d == DetailRows(wb.JBG_Detail_Enrichment)
    IN  Flatten([i \in 1 .. Len(c) |->
                    RowErrors("Catalog", c[i], c[i].row.listing_id,
                              "listing_id")])
        \o Flatten([i \in 1 .. Len(j) |->
                    RowErrors("JBG_Full_Catalog", j[i], j[i].row.product_id,
                              "product_id")])
        \o Flatten([i \in 1 .. Len(d) |->
                    RowErrors("JBG_Detail_Enrichment", d[i],
                              d[i].row.product_id, "product_id")])

NoValidation == [ok |-> FALSE, errors |-> << >>, warnings |-> << >>]

\* Mutant of validate_workbook: no return after the structural checks.
ValidateWithoutFailFast(wb) ==
    LET errors == StructuralErrors(wb) \o RowLevelErrors(wb)
    IN  [ok |-> errors = << >>, errors |-> errors, warnings |-> << >>]

validate_workbook(wb) ==
    LET errors == IF StructuralErrors(wb) # << >>
                  THEN StructuralErrors(wb)
                  ELSE RowLevelErrors(wb)
    IN  [ok |-> errors = << >>, errors |-> errors, warnings |-> << >>]

(***************************************************************************)
(* The input file and the output directory                                 *)
(***************************************************************************)
MaxEvents == 1    \* environment events (tick, edit, deletion) in a behaviour

c_1  == CHOOSE r \in CatalogRowSet : r.listing_id = id1
c_2  == CHOOSE r \in CatalogRowSet : r.listing_id = id2 /\ r.product_url = urlA
c_no == CHOOSE r \in CatalogRowSet : r.listing_id = None /\ r.title = tA
j_1  == CHOOSE r \in JbgCatalogRowSet : r.product_id = id1 /\ r.source = None
d_1  == CHOOSE r \in DetailRowSet : r.product_id = id1 /\ r.title = tA
c_na == CHOOSE r \in CatalogRowSet : r.listing_id = id2 /\ r.product_url = urlB
d_nu == CHOOSE r \in DetailRowSet : r.product_id = id2

\* The contents the input file can have: a valid workbook, one with
\* row-level defects, one that passes validation and on which build_exports
\* raises, one with a sheet and a column missing.
RunWorkbooks ==
    << Workbook(<<c_1, c_2>>, <<j_1>>, <<d_1>>),
       Workbook(<<c_1, c_no>>, <<j_1>>, <<d_nu>>),
       Workbook(<<c_1, c_na>>, <<j_1>>, <<d_1>>),
       [Workbook(<<c_no>>, << >>, <<d_nu>>) EXCEPT
            !.sheetnames = SheetNames \ {"JBG_Full_Catalog"},
            !.headers = [FullHeaders EXCEPT
                            !["JBG_Full_Catalog"] = {},
                            !["JBG_Detail_Enrichment"] = @ \ {"spec_json"}]]
    >>

\* st_size of each content.
SizeOf == <<10, 11, 12, 13>>

InputFile(w, mtime) == [wb |-> w, size |-> SizeOf[w], mtime |-> mtime]

Artifacts == {"checkpoint", "normalized", "raw", "media", "report"}

NoFingerprint == [path |-> "", size |-> 0, mtime |-> 0]

NoCheckpoint ==
    [generated_at |-> 0, input_fingerprint |-> NoFingerprint,
     counts |-> [listings |-> 0, media_rows |-> 0]]

NoReportFile == [report |-> NoReport, output_raw |-> FALSE]

EmptyData(f) ==
    CASE f = "checkpoint" -> NoCheckpoint
      [] f = "report"     -> NoReportFile
      [] OTHER            -> << >>

Absent(f)      == [state |-> "absent",   data |-> EmptyData(f)]
Partial(f)     == [state |-> "partial",  data |-> EmptyData(f)]
Complete(data) == [state |-> "complete", data |-> data]

Exists(file) == file.state # "absent"

EmptyDir == [f \in Artifacts |-> Absent(f)]

(***************************************************************************)
(* run_import (lines 812-880)                                              *)
(***************************************************************************)
\* _file_fingerprint (lines 803-809)
_file_fingerprint(inp) ==
    [path |-> PathX, size |-> inp.size, mtime |-> inp.mtime]

\* What a checkpoint file can hold beside a complete checkpoint ("complete")
\* and the start of one ("partial"): nothing, text that is no JSON, JSON
\* that is no object, bytes that are no UTF-8.
Damaged == {"empty", "not_json", "not_object", "undecodable"}

DamagedFile(kind) == [state |-> kind, data |-> NoCheckpoint]

\* Line 831: checkpoint_path.read_text(encoding="utf-8") raises
\* UnicodeDecodeError on bytes that are no UTF-8, outside the try of
\* _safe_json.  It is evaluated when the conditions of line 830 hold.
ReadRaises(resume, force, fs) ==
    /\ resume /\ ~force
    /\ Exists(fs["checkpoint"]) /\ Exists(fs["normalized"])
    /\ Exists(fs["media"]) /\ Exists(fs["report"])
    /\ fs["checkpoint"].state = "undecodable"

\* _safe_json(checkpoint_path.read_text(), {}): an empty or half-written
\* file and text that does not parse yield {}, whose input_fingerprint is
\* None; of JSON that is no object no input_fingerprint is read (line 832).
ReadCheckpoint(file) ==
    IF file.state = "complete" THEN file.data ELSE NoCheckpoint

\* Mutant of SkipByFingerprint: --force is not looked at.
SkipIgnoringForce(resume, force, fs, fingerprint) ==
    /\ resume
    /\ Exists(fs["checkpoint"]) /\ Exists(fs["normalized"])
    /\ Exists(fs["media"]) /\ Exists(fs["report"])
    /\ ReadCheckpoint(fs["checkpoint"]).input_fingerprint = fingerprint

\* Mutant of SkipByFingerprint: listings.raw.jsonl must exist as well.
SkipRequiringRaw(resume, force, fs, fingerprint) ==
    /\ resume /\ ~force
    /\ Exists(fs["checkpoint"]) /\ Exists(fs["normalized"])
    /\ Exists(fs["raw"])
    /\ Exists(fs["media"]) /\ Exists(fs["report"])
    /\ ReadCheckpoint(fs["checkpoint"]).input_fingerprint = fingerprint

\* Lines 830-834.
SkipByFingerprint(resume, force, fs, fingerprint) ==
    /\ resume /\ ~force
    /\ Exists(fs["checkpoint"]) /\ Exists(fs["normalized"])
    /\ Exists(fs["media"]) /\ Exists(fs["report"])
    /\ ReadCheckpoint(fs["checkpoint"]).input_fingerprint = fingerprint

\* Mutant of ValidationGate: the result of the validation is ignored.
GateAlwaysOpen(validation) == "build"

\* Lines 837-841: where the call goes after validate_workbook.
ValidationGate(validation) == IF validation.ok THEN "build" ELSE "returned"

\* Mutant of WriteOrder: the checkpoint is written before the report.
CheckpointBeforeReport(emit_raw) ==
    IF emit_raw
    THEN <<"normalized", "raw", "media", "checkpoint", "report">>
    ELSE <<"normalized", "media", "checkpoint", "report">>

\* Lines 844-873: the artifacts in the order they are written.
WriteOrder(emit_raw) ==
    IF emit_raw
    THEN <<"normalized", "raw", "media", "report", "checkpoint">>
    ELSE <<"normalized", "media", "report", "checkpoint">>

\* What call r, whose build_exports returned ex, writes to artifact f
\* (now: _now_iso() at line 860).
Content(f, r, ex, now) ==
    CASE f = "normalized" -> ex.listings
      [] f = "raw"        -> ex.raw_rows
      [] f = "media"      -> ex.media_manifest
      [] f = "report"     -> [report |-> ex.report, output_raw |-> r.emit_raw]
      [] f = "checkpoint" ->
            [generated_at |-> now,
             input_fingerprint |-> r.fingerprint,
             counts |-> [listings |-> Len(ex.listings),
                         media_rows |-> Len(ex.media_manifest)]]

\* Artifacts written by a temporary file and an atomic rename (_write_jsonl)
\* and those written in place (Path.write_text).
InPlace == {"report", "checkpoint"}

IdleRun ==
    [pc |-> "idle", wb |-> 1, b2_prefix |-> None, emit_raw |-> FALSE,
     resume |-> FALSE, force |-> FALSE, fingerprint |-> NoFingerprint,
     ret |-> 0]

\* skipped .. failed_write: what the latest call did.
\* rerun: the call before it executed the export and returned 0, with the same
\*        arguments, on the same input bytes, and its artifacts were still in
\*        place when this call began.
\* retry: the call before it was aborted by a failed write, and the input
\*        file is as it was then.
\* dirty: an artifact was removed since the latest call ended.
EmptyLog ==
    [skipped |-> FALSE, validated |-> FALSE, built |-> FALSE,
     printed |-> << >>, written |-> << >>, failed_write |-> FALSE,
     rerun |-> FALSE, retry |-> FALSE, dirty |-> FALSE]

\* The directory after the artifacts named in `names` were written, in order.
RECURSIVE WriteAll(_, _, _, _, _)
WriteAll(fs, names, r, ex, now) ==
    IF names = << >> THEN fs
    ELSE WriteAll([fs EXCEPT ![Head(names)] =
                        Complete(Content(Head(names), r, ex, now))],
                  Tail(names), r, ex, now)

\* build_exports and validate_workbook are pure: their results for the
\* contents the input file can have are tabulated once.
\* run_gloveiq_pipeline.py (line 89) never passes --b2-prefix: the prefix is
\* the argparse default.
RunPrefixes == {sGloveiq}

Built ==
    [w \in 1 .. Len(RunWorkbooks) |->
        [p \in RunPrefixes |->
            [now \in 0 .. MaxEvents |->
                build_exports(PathX, RunWorkbooks[w], p, now)]]]

Validated ==
    [w \in 1 .. Len(RunWorkbooks) |-> validate_workbook(RunWorkbooks[w])]

\* One call of run_import, start to end.  Its write phase either completes
\* (fail_at = 0) or ends at the k-th write (fail_at = k), which raises or in
\* which the process dies; an artifact renamed into place then keeps its old
\* content, one written in place is left as it was or cut short (truncated).
run_import(b2_prefix, emit_raw, resume, force) ==
    LET fingerprint == _file_fingerprint(input)
        skip        == SkipByFingerprint(resume, force, files, fingerprint)
        validation  == Validated[input.wb]
        gate        == ValidationGate(validation)
        ex          == Built[input.wb][b2_prefix][clock]
        order       == WriteOrder(emit_raw)
        call        == [pc |-> "returned", wb |-> input.wb,
                        b2_prefix |-> b2_prefix, emit_raw |-> emit_raw,
                        resume |-> resume, force |-> force,
                        fingerprint |-> fingerprint, ret |-> 0]
        began       == [EmptyLog EXCEPT
                          !.rerun = /\ run.pc = "returned" /\ run.ret = 0
                                    /\ ~log.skipped /\ ~log.dirty
                                    /\ run.wb = input.wb
                                    /\ run.b2_prefix = b2_prefix
                                    /\ run.emit_raw = emit_raw
                                    /\ run.resume = resume
                                    /\ run.force = force,
                          !.retry = /\ run.pc = "aborted"
                                    /\ log.failed_write
                                    /\ run.wb = input.wb
                                    /\ run.fingerprint = fingerprint]
    IN  IF ReadRaises(resume, force, files)            \* line 831 raises
        THEN /\ run' = [call EXCEPT !.pc = "aborted"]
             /\ log' = began
             /\ files' = files
        ELSE IF skip                                   \* lines 830-834
        THEN /\ run' = call
             /\ log' = [began EXCEPT !.skipped = TRUE]
             /\ files' = files
        ELSE IF gate = "returned"                      \* lines 836-841
        THEN /\ run' = [call EXCEPT !.ret = 2]
             /\ log' = [began EXCEPT !.validated = TRUE,
                                     !.printed = validation.errors]
             /\ files' = files
        ELSE IF ex.raised                              \* line 843 raises
        THEN /\ run' = [call EXCEPT !.pc = "aborted"]
             /\ log' = [began EXCEPT !.validated = TRUE, !.built = TRUE]
             /\ files' = files
        ELSE \E fail_at \in 0 .. Len(order), truncated \in BOOLEAN :
             LET done  == IF fail_at = 0 THEN order
                          ELSE SubSeq(order, 1, fail_at - 1)
                 after == WriteAll(files, done, call, ex, clock)
             IN  /\ truncated => fail_at # 0 /\ order[fail_at] \in InPlace
                 /\ run' = [call EXCEPT
                              !.pc = IF fail_at = 0 THEN "returned"
                                     ELSE "aborted"]
                 /\ log' = [began EXCEPT !.validated = TRUE, !.built = TRUE,
                                         !.written = done,
                                         !.failed_write = fail_at # 0]
                 /\ files' = IF truncated
                             THEN [after EXCEPT ![order[fail_at]] =
                                      Partial(order[fail_at])]
                             ELSE after

ExportsFixed == UNCHANGED <<workbook, exports, phase, vresult, fncall, fnret>>

RunImport ==
    /\ \E b2_prefix \in RunPrefixes, emit_raw \in BOOLEAN,
          resume \in BOOLEAN, force \in BOOLEAN :
          run_import(b2_prefix, emit_raw, resume, force)
    /\ UNCHANGED <<input, clock, events>>
    /\ ExportsFixed

(***************************************************************************)
(* Environment, between two calls                                          *)
(***************************************************************************)
Event == events < MaxEvents /\ events' = events + 1

Tick ==
    /\ Event
    /\ clock' = clock + 1
    /\ UNCHANGED <<input, files, run, log>>
    /\ ExportsFixed

\* The input file is rewritten (or only touched) with content w, later than
\* everything that happened before.
ReplaceInput(w) ==
    /\ Event
    /\ clock' = clock + 1
    /\ input' = InputFile(w, clock')
    /\ UNCHANGED <<files, run, log>>
    /\ ExportsFixed

\* An artifact is removed from the output directory.
DeleteOutput(f) ==
    /\ Event
    /\ Exists(files[f])
    /\ files' = [files EXCEPT ![f] = Absent(f)]
    /\ log' = [log EXCEPT !.dirty = TRUE]
    /\ UNCHANGED <<input, clock, run>>
    /\ ExportsFixed

RunFixed == UNCHANGED <<input, clock, files, run, log, events>>

Init ==
    /\ workbook = Workbook(<< >>, << >>, << >>)
    /\ exports = Raised
    /\ phase = "off"
    /\ \E w \in 1 .. Len(RunWorkbooks) : input = InputFile(w, 0)
    /\ clock = 0
    /\ files = EmptyDir
    /\ run = IdleRun
    /\ log = EmptyLog
    /\ events = 0
    /\ vresult = NoValidation
    /\ fncall = NoCall
    /\ fnret = NoReturn

Next ==
    \/ RunImport
    \/ Tick
    \/ \E w \in 1 .. Len(RunWorkbooks) : ReplaceInput(w)
    \/ \E f \in Artifacts : DeleteOutput(f)

Spec == Init /\ [][Next]_vars

(***************************************************************************)
(* build_exports on its own, as qa_regression_check.py calls it            *)
(***************************************************************************)
BuildExports(b2_prefix) ==
    /\ phase = "input"
    /\ exports' = build_exports(PathX, workbook, b2_prefix, 0)
    /\ phase' = "built"
    /\ UNCHANGED <<workbook, vresult, fncall, fnret>>
    /\ RunFixed

InitExports ==
    /\ \E s \in Sizes :
          \E c \in [1 .. s[1] -> CatalogRowSet],
             j \in [1 .. s[2] -> JbgCatalogRowSet],
             d \in [1 .. s[3] -> DetailRowSet] :
             workbook = Workbook(c, j, d)
    /\ exports = Raised
    /\ phase = "input"
    /\ input = InputFile(1, 0)
    /\ clock = 0
    /\ files = EmptyDir
    /\ run = IdleRun
    /\ log = EmptyLog
    /\ events = 0
    /\ vresult = NoValidation
    /\ fncall = NoCall
    /\ fnret = NoReturn

NextExports == \E b2_prefix \in Prefixes : BuildExports(b2_prefix)

SpecExports == InitExports /\ [][NextExports]_vars

(***************************************************************************)
(* Properties of build_exports (under SpecExports)                         *)
(***************************************************************************)
Returned == phase = "built" /\ ~exports.raised

\* The listings the two loops appended for workbook wb, in processing order.
Made(wb) == Appended(RowOutcomes(wb), "listing")

\* C1: whatever the workbook, the listings build_exports returns hold no two
\* Listing Records with the same listing_pk.
C1_UniqueListingPk ==
    Returned =>
        \A i, j \in 1 .. Len(exports.listings) :
            exports.listings[i].listing_pk = exports.listings[j].listing_pk
                => i = j

SamePkAcrossSheets(made) ==
    \E i, j \in 1 .. Len(made) :
        /\ made[i].raw.source_sheet = "Catalog"
        /\ made[j].raw.source_sheet = "JBG_Detail_Enrichment"
        /\ made[j].listing.source = sSS
        /\ made[i].listing.listing_pk = made[j].listing.listing_pk

\* A Catalog row and a JBG row tagged "SS" in the catalog met on one key.
C1_Witness == Returned /\ SamePkAcrossSheets(Made(workbook))

Ascending(ls) ==
    \A i \in 1 .. Len(ls) - 1 :
        LexLess(ls[i].listing_pk, ls[i + 1].listing_pk)

SameKeyOrder(xs, ls) ==
    /\ Len(xs) = Len(ls)
    /\ \A i \in 1 .. Len(ls) : xs[i].listing_pk = ls[i].listing_pk

\* C2: the listings returned are in strictly ascending code-point order of
\* listing_pk, and raw_rows and media_manifest follow the same key order,
\* whatever the order in which the rows were inserted.
C2_AscendingKeyOrder ==
    Returned =>
        /\ Ascending(exports.listings)
        /\ SameKeyOrder(exports.raw_rows, exports.listings)
        /\ SameKeyOrder(exports.media_manifest, exports.listings)

InsertedOutOfOrder(made) ==
    \E i, j \in 1 .. Len(made) :
        /\ i < j
        /\ LexLess(made[j].listing.listing_pk, made[i].listing.listing_pk)

\* A later row brought a smaller key than an earlier one.
C2_Witness ==
    Returned /\ Len(exports.listings) >= 2
             /\ InsertedOutOfOrder(Made(workbook))

\* Record l is the record of the last row of `made` with l's key.
IsLastWritten(l, made) ==
    \E n \in 1 .. Len(made) :
        /\ made[n].listing = l
        /\ \A m \in (n + 1) .. Len(made) :
              made[m].listing.listing_pk # l.listing_pk

LastWriterWins(ls, made) ==
    /\ \A i \in 1 .. Len(ls) : IsLastWritten(ls[i], made)
    /\ \A n \in 1 .. Len(made) :
          \E i \in 1 .. Len(ls) :
              ls[i].listing_pk = made[n].listing.listing_pk

\* C3: for every key, the one retained Listing Record is exactly the record
\* of the row processed last with that key (Catalog rows in row order, then
\* JBG_Detail_Enrichment rows in row order); nothing of an earlier row
\* survives.
C3_LastWriterWins ==
    Returned => LastWriterWins(exports.listings, Made(workbook))

Overwritten(made) ==
    \E i, j \in 1 .. Len(made) :
        /\ i < j
        /\ made[i].listing.listing_pk = made[j].listing.listing_pk
        /\ made[i].listing.title # made[j].listing.title
        /\ made[i].listing.images # made[j].listing.images

\* Two rows with one key and different titles and images were processed.
C3_Witness == Returned /\ Overwritten(Made(workbook))

Permuted(rows, p) == [i \in 1 .. Len(rows) |-> rows[p[i]]]

\* The workbooks holding the rows of wb, sheet by sheet, in another order.
Reorderings(wb) ==
    {[wb EXCEPT !.Catalog = Permuted(wb.Catalog, pc),
                !.JBG_Full_Catalog = Permuted(wb.JBG_Full_Catalog, pj),
                !.JBG_Detail_Enrichment =
                    Permuted(wb.JBG_Detail_Enrichment, pd)] :
        pc \in Permutations(1 .. Len(wb.Catalog)),
        pj \in Permutations(1 .. Len(wb.JBG_Full_Catalog)),
        pd \in Permutations(1 .. Len(wb.JBG_Detail_Enrichment))}

DistinctKeys(made) ==
    \A i, j \in 1 .. Len(made) :
        made[i].listing.listing_pk = made[j].listing.listing_pk => i = j

DistinctProductIds(rows) ==
    \A i, j \in 1 .. Len(rows) :
        (/\ _clean(rows[i].product_id) # None
         /\ _clean(rows[i].product_id) = _clean(rows[j].product_id)) => i = j

\* C4: when no two rows resolve to the same listing_pk and no two
\* JBG_Full_Catalog rows share a product_id, build_exports returns the same
\* listings (same records, same order) for every reordering of the rows.
C4_RowOrderIndependent ==
    (/\ Returned
     /\ DistinctKeys(Made(workbook))
     /\ DistinctProductIds(workbook.JBG_Full_Catalog)) =>
        \A wb2 \in Reorderings(workbook) :
            \A p \in Prefixes :
                build_exports(PathX, wb2, p, 0).listings = exports.listings

\* Three listings with distinct keys, one of them resolved through the
\* catalog index, inserted out of key order.
C4_Witness ==
    /\ Returned
    /\ DistinctKeys(Made(workbook))
    /\ DistinctProductIds(workbook.JBG_Full_Catalog)
    /\ Len(exports.listings) >= 2
    /\ Len(workbook.JBG_Full_Catalog) >= 1
    /\ InsertedOutOfOrder(Made(workbook))
    /\ \E wb2 \in Reorderings(workbook) : Made(wb2) # Made(workbook)

(***************************************************************************)
(* Properties of run_import (under Spec)                                   *)
(***************************************************************************)
\* Every step that is no environment event is one call of run_import; the
\* unprimed state is the state at its start, the primed one at its end.
Called == events' = events

Succeeded(r) == r.pc = "returned" /\ r.ret = 0

OutputFiles == {"normalized", "raw", "media", "report"}

\* C5: a second run on byte-identical input with the same arguments that
\* really executes the export (force or no resume) leaves each of the four
\* output files with the content the first run wrote.
C5_Idempotent ==
    [][(/\ Called
        /\ log'.rerun
        /\ run'.force \/ ~run'.resume
        /\ Succeeded(run') /\ ~log'.skipped)
       => \A f \in OutputFiles : files'[f] = files[f]]_vars

\* The checkpoint in directory fs records the fingerprint of input file inp.
CheckpointMatches(fs, inp) ==
    /\ Exists(fs["checkpoint"])
    /\ ReadCheckpoint(fs["checkpoint"]).input_fingerprint
          = [path |-> PathX, size |-> inp.size, mtime |-> inp.mtime]

NoOp ==
    /\ log'.skipped /\ ~log'.validated /\ ~log'.built
    /\ Succeeded(run')
    /\ log'.written = << >>
    /\ files' = files

\* C6, as stated: with resume, without force and with a checkpoint that
\* records the current input's fingerprint, run_import validates nothing,
\* exports nothing, returns 0 and leaves every file as it was.
C6_SkipOnCheckpoint ==
    [][(/\ Called
        /\ run'.resume /\ ~run'.force
        /\ CheckpointMatches(files, input))
       => NoOp]_vars

\* C6, amended: the same, given that listings.normalized.jsonl,
\* media_manifest.jsonl and import_report.json exist as well.
C6_SkipOnCheckpointAndOutputs ==
    [][(/\ Called
        /\ run'.resume /\ ~run'.force
        /\ CheckpointMatches(files, input)
        /\ Exists(files["normalized"])
        /\ Exists(files["media"])
        /\ Exists(files["report"]))
       => NoOp]_vars

\* A call skipped, later than the second in which the checkpoint was made.
C6_Witness ==
    /\ log.skipped /\ run.resume /\ ~run.force /\ Succeeded(run)
    /\ files["checkpoint"].state = "complete"
    /\ files["checkpoint"].data.input_fingerprint = run.fingerprint
    /\ files["checkpoint"].data.generated_at < clock

\* force, or no resume, or no checkpoint, or a checkpoint of another input.
NonSkipCase ==
    \/ run'.force
    \/ ~run'.resume
    \/ ~CheckpointMatches(files, input)

\* The checkpoint holds this run's fingerprint and the counts of the
\* listings and manifest rows now on disk.
CheckpointOfThisRun ==
    /\ files'["checkpoint"].state = "complete"
    /\ files'["checkpoint"].data.input_fingerprint
          = [path |-> PathX, size |-> input.size, mtime |-> input.mtime]
    /\ files'["normalized"].state = "complete"
    /\ files'["media"].state = "complete"
    /\ files'["checkpoint"].data.counts
          = [listings |-> Len(files'["normalized"].data),
             media_rows |-> Len(files'["media"].data)]

FullyWritten ==
    /\ log'.built
    /\ {log'.written[i] : i \in 1 .. Len(log'.written)}
          = {"normalized", "media", "report", "checkpoint"}
            \cup (IF run'.emit_raw THEN {"raw"} ELSE {})

\* C7, as stated: in every non-skip case run_import runs validation and the
\* export, and when it returns 0 the checkpoint holds this run's fingerprint
\* and counts.
C7_RunsFullPipeline ==
    [][(Called /\ NonSkipCase)
       => /\ ~log'.skipped /\ log'.validated /\ log'.built
          /\ Succeeded(run') => FullyWritten /\ CheckpointOfThisRun]_vars

\* C7, amended: in every non-skip case run_import runs validation and, when
\* the workbook passes it, the export; when it returns 0 every artifact was
\* written and the checkpoint holds this run's fingerprint and counts.
C7_RunsPipelineToValidation ==
    [][(Called /\ NonSkipCase)
       => /\ ~log'.skipped /\ log'.validated
          /\ log'.built <=> Validated[input.wb].ok
          /\ Succeeded(run') => FullyWritten /\ CheckpointOfThisRun]_vars

\* A forced call re-executed the export over a checkpoint that matched.
C7_Witness ==
    /\ log.rerun /\ run.force /\ run.resume
    /\ Succeeded(run) /\ ~log.skipped /\ log.built
    /\ files["checkpoint"].state = "complete"
    /\ files["checkpoint"].data.input_fingerprint = run.fingerprint

\* C8: when validate_workbook reports not ok, run_import returns 2 after
\* printing every error validate_workbook accumulated, and no artifact and
\* no checkpoint is written or changed.
C8_ValidationFailureWritesNothing ==
    [][(Called /\ log'.validated /\ ~Validated[input.wb].ok)
       => /\ run'.pc = "returned" /\ run'.ret = 2
          /\ log'.printed = Validated[input.wb].errors
          /\ log'.printed # << >>
          /\ ~log'.built
          /\ log'.written = << >>
          /\ files' = files]_vars

\* A run failed validation with several errors, over the artifacts and the
\* checkpoint of an earlier successful run.
C8_Witness ==
    /\ run.pc = "returned" /\ run.ret = 2 /\ log.validated
    /\ Len(log.printed) >= 2
    /\ files["checkpoint"].state = "complete"
    /\ files["checkpoint"].data.input_fingerprint # run.fingerprint

Exported(emit_raw) ==
    {"normalized", "media", "report"} \cup (IF emit_raw THEN {"raw"} ELSE {})

WrittenBefore(f, i) == \E k \in 1 .. (i - 1) : log'.written[k] = f

\* C9: within one call the checkpoint is written after
\* listings.normalized.jsonl, listings.raw.jsonl (when enabled),
\* media_manifest.jsonl and import_report.json were written completely; so
\* whenever a call wrote or touched the checkpoint, at whichever write it
\* ended, all its export artifacts are complete.
C9_CheckpointLast ==
    [][Called
       => /\ \A i \in 1 .. Len(log'.written) :
                log'.written[i] = "checkpoint"
                    => \A f \in Exported(run'.emit_raw) :
                           WrittenBefore(f, i) /\ files'[f].state = "complete"
          /\ files'["checkpoint"] # files["checkpoint"]
                => \A f \in Exported(run'.emit_raw) :
                       /\ WrittenBefore(f, Len(log'.written) + 1)
                       /\ files'[f].state = "complete"]_vars

\* A call with the raw export enabled wrote all five files.
C9_Witness ==
    /\ Succeeded(run) /\ run.emit_raw
    /\ Len(log.written) = 5
    /\ log.written[5] = "checkpoint"
    /\ \A f \in Artifacts : files[f].state = "complete"

\* C10: a call in which a write failed is aborted and leaves no new
\* checkpoint, and the retry on the same input with resume and without
\* force re-executes the export instead of skipping, whatever the output
\* directory held before.
C10_RetryReexecutes ==
    [][Called
       => /\ log'.failed_write
                => /\ run'.pc = "aborted"
                   /\ \A i \in 1 .. Len(log'.written) :
                         log'.written[i] # "checkpoint"
                   /\ files'["checkpoint"].state = "complete"
                         => files'["checkpoint"] = files["checkpoint"]
          /\ (log'.retry /\ run'.resume /\ ~run'.force)
                => ~log'.skipped]_vars

\* C11: at every point of a run_import execution, a crash between or in the
\* middle of writes included, each artifact path (the three .jsonl files,
\* import_report.json, the checkpoint) holds its complete previous content
\* or its complete new content, never a partly written file.
C11_NoPartialArtifact ==
    [][Called
       => \A f \in Artifacts :
             /\ files'[f].state # "partial" \/ files'[f] = files[f]
             /\ \/ files'[f] = files[f]
                \/ /\ files'[f].state = "complete"
                   /\ \E i \in 1 .. Len(log'.written) : log'.written[i] = f
       ]_vars

\* Every required sheet and column of the input workbook is present.
StructurallyValid == StructuralErrors(RunWorkbooks[input.wb]) = << >>

\* C12: a row-level problem (a non-empty row without its id or its URL)
\* never halts run_import: a call that does not skip halts without exporting
\* (returns 2, build_exports not called) only when a required sheet or column
\* is missing; otherwise it exports and, its writes succeeding, returns 0.
C12_OnlyStructuralProblemsHalt ==
    [][(Called /\ ~log'.skipped)
       => /\ (run'.pc = "returned" /\ run'.ret = 2) => ~StructurallyValid
          /\ StructurallyValid => log'.built
          /\ (StructurallyValid /\ ~log'.failed_write
                /\ ~Built[input.wb][run'.b2_prefix][clock].raised)
                => Succeeded(run')]_vars

(***************************************************************************)
(* validate_workbook on its own, on every kind of workbook                 *)
(***************************************************************************)
\* Rows as validate_workbook sees them: id and URL there or not (the id with
\* a trailing blank), another cell filled, or the whole row blank.
VCatalogRows ==
    {[listing_id |-> i, product_url |-> u, title |-> tA,
      normalized_json |-> JAbsent, images_json |-> JAbsent] :
        i \in {None, id1sp}, u \in {None, urlA}}
    \cup {[listing_id |-> None, product_url |-> None, title |-> Space,
           normalized_json |-> JAbsent, images_json |-> JAbsent]}

VJbgCatalogRows ==
    {[product_id |-> i, product_url |-> u, source |-> None,
      catalog_title |-> tA] : i \in {None, id1sp}, u \in {None, urlA}}
    \cup {[product_id |-> None, product_url |-> None, source |-> None,
           catalog_title |-> None]}

VDetailRows ==
    {[product_id |-> i, product_url |-> u, title |-> tA,
      images_json |-> JAbsent] : i \in {None, id1sp}, u \in {None, urlA}}
    \cup {[product_id |-> None, product_url |-> None, title |-> None,
           images_json |-> JAbsent]}

\* Sheets and header rows a workbook can come with.
Structures ==
    {[sheetnames |-> SheetNames \ gone,
      headers |-> [sh \in SheetNames |->
                     IF sh \in gone THEN {} ELSE FullHeaders[sh] \ cut]] :
        gone \in {{}, {"JBG_Full_Catalog"},
                  {"Catalog", "JBG_Full_Catalog"}},
        cut \in {{}, {"spec_json"}, {"listing_id", "normalized_json"},
                 {"product_url", "spec_json"}}}

ValidateWorkbook ==
    /\ phase = "input"
    /\ vresult' = validate_workbook(workbook)
    /\ phase' = "validated"
    /\ UNCHANGED <<workbook, exports, fncall, fnret>>
    /\ RunFixed

InitValidate ==
    /\ \E s \in Sizes, st \in Structures :
          \E c \in [1 .. s[1] -> VCatalogRows],
             j \in [1 .. s[2] -> VJbgCatalogRows],
             d \in [1 .. s[3] -> VDetailRows] :
             workbook = [Workbook(c, j, d) EXCEPT
                            !.sheetnames = st.sheetnames,
                            !.headers = st.headers]
    /\ exports = Raised
    /\ phase = "input"
    /\ input = InputFile(1, 0)
    /\ clock = 0
    /\ files = EmptyDir
    /\ run = IdleRun
    /\ log = EmptyLog
    /\ events = 0
    /\ vresult = NoValidation
    /\ fncall = NoCall
    /\ fnret = NoReturn

NextValidate == ValidateWorkbook

SpecValidate == InitValidate /\ [][NextValidate]_vars

(***************************************************************************)
(* Properties of validate_workbook (under SpecValidate)                    *)
(***************************************************************************)
MissingSheets(wb) == SheetNames \ wb.sheetnames

MissingColumns(wb) ==
    {sc \in wb.sheetnames \X UNION {FullHeaders[sh] : sh \in SheetNames} :
        sc[2] \in FullHeaders[sc[1]] \ wb.headers[sc[1]]}

\* The number of entries of errs that satisfy Is.
Count(errs, Is(_)) == Cardinality({i \in 1 .. Len(errs) : Is(errs[i])})

\* C13: when a required sheet, or a required column of a present sheet, is
\* missing, validate_workbook returns ok = false and an error list with
\* exactly one entry per missing sheet and one per missing column, and no
\* row-level entry, whatever the rows hold.
C13_StructuralFailFast ==
    (/\ phase = "validated"
     /\ MissingSheets(workbook) \cup MissingColumns(workbook) # {}) =>
        /\ ~vresult.ok
        /\ \A sh \in MissingSheets(workbook) :
              Count(vresult.errors,
                    LAMBDA e : e.msg = "Missing required sheet"
                               /\ e.sheet = sh) = 1
        /\ \A sc \in MissingColumns(workbook) :
              Count(vresult.errors,
                    LAMBDA e : /\ e.msg = "missing required column"
                               /\ e.sheet = sc[1] /\ e.column = sc[2]) = 1
        /\ Len(vresult.errors) = Cardinality(MissingSheets(workbook))
                                  + Cardinality(MissingColumns(workbook))
        /\ \A i \in 1 .. Len(vresult.errors) : vresult.errors[i].row = 0

\* Some row of some sheet of wb is non-empty and lacks its id or its URL.
SomeRowDefective(wb) ==
    \/ \E i \in 1 .. Len(wb.Catalog) :
          wb.Catalog[i].title = tA /\ wb.Catalog[i].listing_id = None
    \/ \E i \in 1 .. Len(wb.JBG_Detail_Enrichment) :
          /\ wb.JBG_Detail_Enrichment[i].title = tA
          /\ wb.JBG_Detail_Enrichment[i].product_url = None

\* A sheet and two columns of another are missing, and rows are defective.
C13_Witness ==
    /\ phase = "validated"
    /\ Cardinality(MissingSheets(workbook)) = 1
    /\ Cardinality(MissingColumns(workbook)) = 2
    /\ SomeRowDefective(workbook)
    /\ Len(vresult.errors) = 3

\* The columns of the modelled rows that hold text.
TextColumns ==
    {"listing_id", "product_id", "product_url", "title", "source",
     "catalog_title"}

\* A row is non-empty when some cell has text other than blanks.
NonEmpty(row) ==
    \E k \in (DOMAIN row) \cap TextColumns : row[k] \notin {None, Space}

\* The identity fields that a sheet's rows lack: (row number, column).
Lacking(rows, idcol) ==
    {rc \in (2 .. Len(rows) + 1) \X {idcol, "product_url"} :
        /\ NonEmpty(rows[rc[1] - 1])
        /\ rows[rc[1] - 1][rc[2]] \in {None, Space}}

Reported(errs, sheet, rc) ==
    Count(errs, LAMBDA e : /\ e.sheet = sheet /\ e.row = rc[1]
                           /\ e.column = rc[2])

\* C14: on a structurally valid workbook validate_workbook reports, for
\* every non-empty row of each of the three sheets, one error for a missing
\* id and one for a missing URL, and nothing else (nothing for an empty
\* row); ok is true exactly when the error list is empty; warnings is empty.
C14_RowChecksAccumulate ==
    (/\ phase = "validated"
     /\ MissingSheets(workbook) \cup MissingColumns(workbook) = {}) =>
        /\ \A rc \in Lacking(workbook.Catalog, "listing_id") :
              Reported(vresult.errors, "Catalog", rc) = 1
        /\ \A rc \in Lacking(workbook.JBG_Full_Catalog, "product_id") :
              Reported(vresult.errors, "JBG_Full_Catalog", rc) = 1
        /\ \A rc \in Lacking(workbook.JBG_Detail_Enrichment, "product_id") :
              Reported(vresult.errors, "JBG_Detail_Enrichment", rc) = 1
        /\ Len(vresult.errors)
              = Cardinality(Lacking(workbook.Catalog, "listing_id"))
                + Cardinality(Lacking(workbook.JBG_Full_Catalog,
                                      "product_id"))
                + Cardinality(Lacking(workbook.JBG_Detail_Enrichment,
                                      "product_id"))
        /\ vresult.ok <=> vresult.errors = << >>
        /\ vresult.warnings = << >>

\* An empty row, then a row lacking both id and URL, and a defective row in
\* another sheet.
C14_Witness ==
    /\ phase = "validated"
    /\ MissingSheets(workbook) \cup MissingColumns(workbook) = {}
    /\ Len(workbook.Catalog) = 2
    /\ ~NonEmpty(workbook.Catalog[1])
    /\ Cardinality(Lacking(workbook.Catalog, "listing_id")) = 2
    /\ Cardinality(Lacking(workbook.JBG_Detail_Enrichment, "product_id")) = 1
    /\ Len(vresult.errors) = 3

(***************************************************************************)
(* The field functions on their own: one call, from its arguments to what  *)
(* it returns or raises                                                    *)
(***************************************************************************)
RecordTypeCalls ==
    {[fn |-> "_record_type_from_listing", args |-> <<s, c, m, t>>] :
        s \in {sSS, sJBG, s_jbg, sEbay, s_JustBallGloves},
        c \in {None, s_New, s_Game_Used, s_Game},
        m \in {None, sUnknown, sA2000, s_unknown, s_Used, s_Custom},
        t \in {None, s_Wilson_A2000, s_Game_Used_Wilson, s_Relace_kit,
               s_One_of_1_1, s_Customer_return}}

\* Texts a size is read from: none, blank, a decimal, a mixed fraction (with
\* a blank or a dash, with a zero denominator), inches, and no size at all.
SizeTexts ==
    {None, Space, s_11_5, s_Wilson_11_3_4_glove, s_12_1_2,
     s_12_1_0, s_A2000_12_inches, s_glove, s_1_1}

NumberTexts ==
    {None, Space, s_199_99, s_12_padded, s_1_299_50_USD, s_minus_0_5,
     s_n_a, s_commas, s_1_2_3, s_12_1_0}

ThrowTexts ==
    {None, Space, s_Right_Hand_Throw, s_LHT, s_left, s_Both,
     s_12_1_0, s_Left_or_rIGHT}

PositionTexts ==
    {None, Space, s_Outfield, s_OF, s_if, s_Pitcher, s_Catcher,
     s_1B, sSS, s_Utility, s_DH, s_12_1_0}

Titles ==
    {None, Space, s_Wilson_A2000_11_5, s_rawlings_wilson,
     s_Glove_Model_A2K, s_Glove_model_PRO_204,
     s_Mizuno_GMVP_1150, s_Glove_pro12, s_44_pro_12_1_0}

Explicits == {None, Space, s_SSK_padded}

ImageCells ==
    {JAbsent, JBad, JStr(img1), JObj(NoMembers), JList(<< >>),
     JList(<<img1, img3, img1, None, img2>>), JList(<<s_12_1_0>>),
     JList(<<Space \o img1 \o Space, img2, img1>>)}

OneArgCalls(fn, values) == {[fn |-> fn, args |-> <<v>>] : v \in values}

FieldCalls ==
    RecordTypeCalls
    \cup OneArgCalls("_extract_size_in", SizeTexts)
    \cup OneArgCalls("_safe_float", NumberTexts)
    \cup OneArgCalls("_norm_throw", ThrowTexts)
    \cup OneArgCalls("_norm_position", PositionTexts)
    \cup {[fn |-> f, args |-> <<t, e>>] :
            f \in {"_infer_brand", "_infer_model"},
            t \in Titles, e \in Explicits}
    \cup OneArgCalls("_norm_images", ImageCells)

\* The call of fn ends with outcome r.
Return(fn, r) ==
    /\ phase = "input"
    /\ fncall.fn = fn
    /\ fnret' = r
    /\ phase' = "returned"
    /\ UNCHANGED <<workbook, exports, vresult, fncall>>
    /\ RunFixed

CallRecordType ==
    Return("_record_type_from_listing",
           Value(_record_type_from_listing(fncall.args[1], fncall.args[2],
                                           fncall.args[3], fncall.args[4])))

CallExtractSizeIn ==
    Return("_extract_size_in", _extract_size_in(fncall.args[1]))

CallSafeFloat == Return("_safe_float", Value(_safe_float(fncall.args[1])))

CallNormThrow == Return("_norm_throw", Value(_norm_throw(fncall.args[1])))

CallNormPosition ==
    Return("_norm_position", Value(_norm_position(fncall.args[1])))

CallInferBrand ==
    Return("_infer_brand",
           Value(_infer_brand(fncall.args[1], fncall.args[2])))

CallInferModel ==
    Return("_infer_model",
           Value(_infer_model(fncall.args[1], fncall.args[2])))

CallNormImages == Return("_norm_images", Value(_norm_images(fncall.args[1])))

InitFields ==
    /\ fncall \in FieldCalls
    /\ fnret = NoReturn
    /\ phase = "input"
    /\ workbook = Workbook(<< >>, << >>, << >>)
    /\ exports = Raised
    /\ vresult = NoValidation
    /\ input = InputFile(1, 0)
    /\ clock = 0
    /\ files = EmptyDir
    /\ run = IdleRun
    /\ log = EmptyLog
    /\ events = 0

NextFields ==
    \/ CallRecordType
    \/ CallExtractSizeIn
    \/ CallSafeFloat
    \/ CallNormThrow
    \/ CallNormPosition
    \/ CallInferBrand
    \/ CallInferModel
    \/ CallNormImages

SpecFields == InitFields /\ [][NextFields]_vars

(***************************************************************************)
(* Properties of the field functions (under SpecFields)                    *)
(***************************************************************************)
ReturnedFrom(fn) == phase = "returned" /\ fncall.fn = fn

\* The lower-cased concatenation of source, condition, model code and title.
Signal(args) == Lower(Join(<<args[1], args[2], args[3], args[4]>>))

Individualized(args) ==
    \E k \in 1 .. Len(artifact_markers) :
        Contains(Signal(args), artifact_markers[k])

ModelCodeKnown(args) == _clean(args[3]) \notin {None, sUnknown}

FirstParty(args) == Upper(args[1]) \in FirstPartyTags

\* C15: _record_type_from_listing returns artifact whenever the lower-cased
\* concatenation of source, condition, model code and title contains an
\* individualization marker, whatever the model code and the source are;
\* without a marker it returns variant when the model code is non-empty and
\* not "Unknown" or the source is a first-party retailer tag, and artifact
\* otherwise.
C15_RecordTypeRule ==
    ReturnedFrom("_record_type_from_listing") =>
        /\ ~fnret.raised
        /\ fnret.value =
              IF Individualized(fncall.args) THEN sArtifact
              ELSE IF ModelCodeKnown(fncall.args) \/ FirstParty(fncall.args)
              THEN sVariant
              ELSE sArtifact

\* A JBG listing with a populated model code and "game used" in its title
\* was classified artifact.
C15_Witness ==
    /\ ReturnedFrom("_record_type_from_listing")
    /\ fncall.args[1] = sJBG
    /\ fncall.args[3] = sA2000
    /\ Contains(Lower(fncall.args[4]), s_game_used)
    /\ fnret = Value(sArtifact)

(***************************************************************************)
(* build_exports on workbooks whose rows carry the columns the inferred    *)
(* fields are read from                                                    *)
(***************************************************************************)

\* A new Wilson A2000 (variant); the same glove, game used (artifact); a
\* glove with nothing to infer, whose "raw" member is no object; a row with
\* a blank title whose "norm" member is no object; an explicit "Unknown".
RichCatalogRows ==
    { [listing_id |-> id1, product_url |-> urlA, title |-> s_Wilson_A2000,
       price |-> s_dollar_199_99, condition |-> s_New, brand |-> None,
       model |-> sA2000, images_json |-> JAbsent,
       normalized_json |->
          JObj([norm |-> JObj([size_in |-> JStr(s_11_5),
                               throw_hand |-> JStr(s_Right)])])],
      [listing_id |-> id2, product_url |-> urlA,
       title |-> s_Game_Used_Wilson_A2000, price |-> None,
       condition |-> None, brand |-> None, model |-> sA2000,
       images_json |-> JAbsent, normalized_json |-> JBad],
      [listing_id |-> id1, product_url |-> urlB, title |-> s_Glove,
       price |-> s_n_a, condition |-> None, brand |-> None,
       model |-> None, images_json |-> JObj(NoMembers),
       normalized_json |->
          JObj([norm |-> JObj(NoMembers), raw |-> JStr(tA)])],
      [listing_id |-> id2, product_url |-> urlB, title |-> None,
       price |-> None, condition |-> None, brand |-> None, model |-> None,
       images_json |-> JAbsent,
       normalized_json |-> JObj([norm |-> JList(<< >>)])],
      [listing_id |-> id2, product_url |-> urlB,
       title |-> s_Fastpitch_glove, price |-> None,
       condition |-> s_Used, brand |-> Space, model |-> sUnknown,
       images_json |-> JAbsent, normalized_json |-> JList(<< >>)] }

RichJbgCatalogRows ==
    { [product_id |-> id1, product_url |-> urlB, source |-> None,
       catalog_title |-> s_Wilson_A2000_11_5, catalog_price |-> s_150],
      [product_id |-> id1, product_url |-> None, source |-> sEbay,
       catalog_title |-> None, catalog_price |-> None],
      [product_id |-> id2, product_url |-> urlB, source |-> sSS,
       catalog_title |-> None, catalog_price |-> None] }

\* The Wilson A2000 again, its size and hand in the profile; a custom glove
\* with an unparseable profile; a row with nothing to infer, whose profile
\* is a list; a profile whose size has a zero denominator; a row that has
\* only its product_id.
RichDetailRows ==
    { [product_id |-> id1, product_url |-> urlA, title |-> s_Wilson_glove,
       price |-> None, model_code |-> sA2000,
       images_json |-> JList(<<img1, img2>>),
       spec_json |-> JAbsent,
       glove_profile_json |->
          JItems(<<[k |-> s_Glove_Size, v |-> JStr(s_11_1_2)],
                   [k |-> s_Throwing_Hand, v |-> JStr(s_RHT)]>>)],
      [product_id |-> id2, product_url |-> urlA,
       title |-> s_Custom_Rawlings, price |-> s_99, model_code |-> None,
       images_json |-> JAbsent, spec_json |-> JList(<< >>),
       glove_profile_json |-> JBad],
      [product_id |-> id2, product_url |-> urlA, title |-> None,
       price |-> None, model_code |-> None, images_json |-> JBad,
       spec_json |-> JBad, glove_profile_json |-> JList(<< >>)],
      [product_id |-> id1, product_url |-> urlA, title |-> s_Wilson_A2000,
       price |-> None, model_code |-> None, images_json |-> JAbsent,
       spec_json |-> JAbsent,
       glove_profile_json |->
          JItems(<<[k |-> s_Size, v |-> JStr(s_12_1_0)]>>)],
      [product_id |-> id2, product_url |-> None, title |-> None,
       price |-> None, model_code |-> None, images_json |-> JAbsent,
       spec_json |-> JAbsent, glove_profile_json |-> JAbsent] }

\* A Catalog sheet with more rows in error than the report lists: each row
\* has a product_url and no listing_id.
RowInError ==
    [listing_id |-> None, product_url |-> urlB, title |-> None,
     price |-> None, condition |-> None, brand |-> None, model |-> None,
     images_json |-> JAbsent, normalized_json |-> JAbsent]

ManyErrors ==
    Workbook([i \in 1 .. ErrorsCap + 1 |-> RowInError], << >>, << >>)

InitListings ==
    /\ \/ \E s \in Sizes :
             \E c \in [1 .. s[1] -> RichCatalogRows],
                j \in [1 .. s[2] -> RichJbgCatalogRows],
                d \in [1 .. s[3] -> RichDetailRows] :
                workbook = Workbook(c, j, d)
       \/ workbook = ManyErrors
    /\ exports = Raised
    /\ phase = "input"
    /\ input = InputFile(1, 0)
    /\ clock = 0
    /\ files = EmptyDir
    /\ run = IdleRun
    /\ log = EmptyLog
    /\ events = 0
    /\ vresult = NoValidation
    /\ fncall = NoCall
    /\ fnret = NoReturn

NextListings == \E b2_prefix \in Prefixes : BuildExports(b2_prefix)

SpecListings == InitListings /\ [][NextListings]_vars

(***************************************************************************)
(* Properties of the listing records (under SpecListings)                  *)
(***************************************************************************)
Listings == exports.listings

\* The sheet the row of output listing l was read from.
SheetOf(l) ==
    LET rr == CHOOSE k \in 1 .. Len(exports.raw_rows) :
                 exports.raw_rows[k].listing_pk = l.listing_pk
    IN  exports.raw_rows[rr].source_sheet

SameGlove(a, b) ==
    /\ a.brand = b.brand
    /\ a.model_code = b.model_code
    /\ a.size_in = b.size_in
    /\ a.throw_hand = b.throw_hand

CrossSourceVariants(a, b) ==
    /\ a.record_type = sVariant
    /\ b.record_type = sVariant
    /\ SheetOf(a) = "Catalog"
    /\ SheetOf(b) = "JBG_Detail_Enrichment"
    /\ SameGlove(a, b)

\* C16: two output listings that are both variants with the same brand,
\* model code, size and throw hand, one read from the Catalog sheet and one
\* from the JBG detail sheet, have the same glove_id and different
\* listing_pk values.
C16_VariantIdentityStable ==
    Returned =>
        \A i, j \in 1 .. Len(Listings) :
            CrossSourceVariants(Listings[i], Listings[j]) =>
                /\ Listings[i].glove_id = Listings[j].glove_id
                /\ Listings[i].listing_pk # Listings[j].listing_pk

\* The Wilson A2000 of size 11.5, right hand throw, came out of both sheets.
C16_Witness ==
    /\ Returned
    /\ \E i, j \in 1 .. Len(Listings) :
          /\ CrossSourceVariants(Listings[i], Listings[j])
          /\ Listings[i].size_in = <<23, 2>>
          /\ Listings[i].throw_hand = s_RHT
          /\ Listings[i].glove_id = s_variant_wilson_a2000_11_5_rht

\* C17: every output listing with record_type artifact has the glove_id
\* "artifact:" + source + ":" + source_listing_id, which is "artifact:" +
\* listing_pk; no two artifact listings of the output share a glove_id, and
\* no artifact glove_id is the glove_id of a variant listing.
C17_ArtifactIdentity ==
    Returned =>
        \A i \in 1 .. Len(Listings) :
            Listings[i].record_type = sArtifact =>
                /\ Listings[i].glove_id =
                      s_artifact_prefix \o Listings[i].source \o Colon
                      \o Listings[i].source_listing_id
                /\ Listings[i].glove_id =
                      s_artifact_prefix \o Listings[i].listing_pk
                /\ \A j \in 1 .. Len(Listings) :
                      /\ j # i /\ Listings[j].record_type = sArtifact
                            => Listings[j].glove_id # Listings[i].glove_id
                      /\ Listings[j].record_type = sVariant
                            => Listings[j].glove_id # Listings[i].glove_id

\* The output holds an artifact of each sheet and a variant.
C17_Witness ==
    /\ Returned
    /\ \E i, j, k \in 1 .. Len(Listings) :
          /\ Listings[i].record_type = sArtifact
          /\ SheetOf(Listings[i]) = "Catalog"
          /\ Listings[j].record_type = sArtifact
          /\ SheetOf(Listings[j]) = "JBG_Detail_Enrichment"
          /\ Listings[k].record_type = sVariant

Inferred == {"brand", "model", "model_code", "player_position", "web_type", "condition"}

\* C18: in every listing record that build_exports produces, brand, model,
\* model_code, player_position, web_type and condition are text, never
\* null ("Unknown" when nothing was inferred), throw_hand is RHT, LHT or UNK
\* (UNK when the row has no throw hand), and sport is baseball or softball.
C18_InferredFieldsDefaulted ==
    Returned =>
        \A i \in 1 .. Len(Listings) :
            /\ \A f \in Inferred : Listings[i][f] # None
            /\ Listings[i].throw_hand \in {s_RHT, s_LHT, sUNK}
            /\ Listings[i].sport \in {s_baseball, s_softball}

\* A listing came out of each sheet with nothing inferred: every text field
\* "Unknown", throw hand UNK, no size and no price.
NothingInferred(l) ==
    /\ \A f \in Inferred \ {"condition"} : l[f] = sUnknown
    /\ l.throw_hand = sUNK
    /\ l.size_in = None
    /\ l.price = None

C18_Witness ==
    /\ Returned
    /\ \E i, j \in 1 .. Len(Listings) :
          /\ SheetOf(Listings[i]) = "Catalog"
          /\ NothingInferred(Listings[i])
          /\ Listings[i].condition = sUnknown
          /\ SheetOf(Listings[j]) = "JBG_Detail_Enrichment"
          /\ NothingInferred(Listings[j])

(***************************************************************************)
(* Totality of the field normalizers (under SpecFields)                    *)
(***************************************************************************)
Normalizers ==
    {"_extract_size_in", "_safe_float", "_norm_throw", "_norm_position",
     "_infer_brand", "_infer_model", "_norm_images"}

\* C19: every field normalizer is total: whatever its input, a mixed
\* fraction with a zero denominator such as "12 1/0" included, the call
\* returns a value or null and never raises.
C19_NormalizersTotal ==
    phase = "returned" /\ fncall.fn \in Normalizers => ~fnret.raised

(***************************************************************************)
(* Malformed sub-documents (under SpecListings)                            *)
(***************************************************************************)
\* A cell that does not parse, or parses to another type than the one read.
Unexpected(v, type) == v.t = "bad" \/ (v.t \notin {"absent", type})

\* normalized_json: also an object whose "norm" or "raw" member is no object.
UnexpectedNormalized(v) ==
    \/ Unexpected(v, "obj")
    \/ v.t = "obj" /\ \E k \in {"norm", "raw"} \cap DOMAIN v.m :
                          v.m[k].t # "obj"

Missing(v) == v.t = "absent"

\* Every sub-document of the workbook is missing or malformed.
OnlyMalformed(wb) ==
    /\ \A i \in 1 .. Len(wb.Catalog) :
          LET row == wb.Catalog[i]
          IN  /\ Missing(row.normalized_json)
                    \/ UnexpectedNormalized(row.normalized_json)
              /\ Missing(row.images_json)
                    \/ Unexpected(row.images_json, "list")
    /\ \A i \in 1 .. Len(wb.JBG_Detail_Enrichment) :
          LET row == wb.JBG_Detail_Enrichment[i]
          IN  /\ Missing(row.glove_profile_json)
                    \/ Unexpected(row.glove_profile_json, "obj")
              /\ Missing(row.spec_json) \/ Unexpected(row.spec_json, "obj")
              /\ Missing(row.images_json)
                    \/ Unexpected(row.images_json, "list")

\* The same workbook with every sub-document cell empty.
Emptied(wb) ==
    [wb EXCEPT
        !.Catalog =
            [i \in 1 .. Len(wb.Catalog) |->
                [wb.Catalog[i] EXCEPT !.normalized_json = JAbsent,
                                      !.images_json = JAbsent]],
        !.JBG_Detail_Enrichment =
            [i \in 1 .. Len(wb.JBG_Detail_Enrichment) |->
                [wb.JBG_Detail_Enrichment[i] EXCEPT
                    !.glove_profile_json = JAbsent,
                    !.spec_json = JAbsent,
                    !.images_json = JAbsent]]]

Keys(ls) == [i \in 1 .. Len(ls) |-> ls[i].listing_pk]

\* C20: whatever malformed content the sub-document columns hold
\* (unparseable text, JSON of another type, a normalized_json whose "norm"
\* or "raw" member is no object beside a blank title), build_exports does
\* not raise and treats it as empty: it emits the listings, and records the
\* errors, of the same workbook with these cells empty.
C20_MalformedSubDocumentsIgnored ==
    phase = "built" /\ OnlyMalformed(workbook) =>
        /\ ~exports.raised
        /\ Keys(exports.listings) =
              Keys(build_exports(PathX, Emptied(workbook), None, 0).listings)
        /\ exports.report.errors =
              build_exports(PathX, Emptied(workbook), None, 0).report.errors

(***************************************************************************)
(* Backfill from the catalog counterpart (under SpecListings)              *)
(***************************************************************************)
\* The detail rows of the workbook and the outcome of the i-th of them.
DetailIt == DetailRows(workbook.JBG_Detail_Enrichment)

DetailOutcome(i) ==
    RowOutcomes(workbook)[Len(CatalogRows(workbook.Catalog)) + i]

\* The catalog counterpart of a detail row: the last JBG_Full_Catalog row
\* with its product_id, NoCat when there is none.
Counterpart(e) ==
    LET idx == _build_jbg_catalog_index(workbook.JBG_Full_Catalog)
        pid == _clean(e.row.product_id)
    IN  IF pid \in DOMAIN idx THEN idx[pid] ELSE NoCat

OwnUrl(e)   == _clean(e.row.product_url)
OwnPrice(e) == _safe_float(Cell(e.row, "price"))

UrlBackfilled(i) ==
    /\ DetailOutcome(i).kind = "listing"
    /\ OwnUrl(DetailIt[i]) = None

PriceBackfilled(i) ==
    /\ DetailOutcome(i).kind = "listing"
    /\ OwnPrice(DetailIt[i]) = None
    /\ Counterpart(DetailIt[i]).catalog_price # None

\* The url and the price of every listing made from a detail row are the
\* row's own when it has them, the catalog counterpart's otherwise.
OwnValuesFirst ==
    \A i \in 1 .. Len(DetailIt) :
        DetailOutcome(i).kind = "listing" =>
            /\ DetailOutcome(i).listing.url =
                  IF OwnUrl(DetailIt[i]) # None THEN OwnUrl(DetailIt[i])
                  ELSE Counterpart(DetailIt[i]).product_url
            /\ DetailOutcome(i).listing.price =
                  IF OwnPrice(DetailIt[i]) # None THEN OwnPrice(DetailIt[i])
                  ELSE Counterpart(DetailIt[i]).catalog_price

Backfills ==
    Cardinality({i \in 1 .. Len(DetailIt) : UrlBackfilled(i)})
    + Cardinality({i \in 1 .. Len(DetailIt) : PriceBackfilled(i)})

\* C21: for each JBG detail row the listing's url and price are the row's
\* own when present and the catalog counterpart's otherwise, and every
\* backfill of a url or of a price from the catalog is counted in the
\* report's defaults_applied.
C21_BackfillsCounted ==
    Returned =>
        /\ OwnValuesFirst
        /\ exports.report.defaults_applied.price_from_catalog = Backfills

\* The part of C21 the code keeps: own values first, and every backfill of
\* a price counted.
C21_PriceBackfillsCounted ==
    Returned =>
        /\ OwnValuesFirst
        /\ exports.report.defaults_applied.price_from_catalog =
              Cardinality({i \in 1 .. Len(DetailIt) : PriceBackfilled(i)})

\* A url was taken from the catalog and defaults_applied is empty.
C21_UrlBackfillUncounted ==
    /\ Returned
    /\ \E i \in 1 .. Len(DetailIt) : UrlBackfilled(i) /\ ~PriceBackfilled(i)
    /\ exports.report.defaults_applied.price_from_catalog = 0

(***************************************************************************)
(* Rows in error (under SpecExports)                                       *)
(***************************************************************************)
CatalogIt == CatalogRows(workbook.Catalog)

\* A Catalog row without listing_id or product_url; a detail row without
\* product_id, or without a url of its own or of its counterpart.
BadCatalog(e) ==
    _clean(e.row.listing_id) = None \/ _clean(e.row.product_url) = None

BadDetail(e) ==
    \/ _clean(e.row.product_id) = None
    \/ OwnUrl(e) = None /\ Counterpart(e).product_url = None

BadRows ==
    Cardinality({i \in 1 .. Len(CatalogIt) : BadCatalog(CatalogIt[i])})
    + Cardinality({i \in 1 .. Len(DetailIt) : BadDetail(DetailIt[i])})

\* The listing_pk of the rows that are not in error.
GoodKeys ==
    {_stable_key(sSS, _clean(CatalogIt[i].row.listing_id)) :
        i \in {j \in 1 .. Len(CatalogIt) : ~BadCatalog(CatalogIt[j])}}
    \cup
    {_stable_key(Or(Counterpart(DetailIt[i]).source, sJBG),
                 _clean(DetailIt[i].row.product_id)) :
        i \in {j \in 1 .. Len(DetailIt) : ~BadDetail(DetailIt[j])}}

\* A detail row with a url of its own and no catalog counterpart.
Orphan(e) ==
    /\ _clean(e.row.product_id) # None /\ OwnUrl(e) # None
    /\ Counterpart(e) = NoCat

\* C22: a detail row with its own url and no catalog counterpart gives a
\* listing of source JBG and no error; a row without its identity field, or
\* a detail row with no url in detail and catalog, gives no listing and one
\* error; every other row is still exported.
C22_RowErrorsSkipOnlyTheRow ==
    Returned =>
        /\ \A i \in 1 .. Len(DetailIt) :
              Orphan(DetailIt[i]) =>
                 \E k \in 1 .. Len(exports.listings) :
                    /\ exports.listings[k].source = sJBG
                    /\ exports.listings[k].listing_pk =
                          _stable_key(sJBG, _clean(DetailIt[i].row.product_id))
        /\ exports.report.errors_count = BadRows
        /\ Len(exports.report.errors) = BadRows
        /\ KeysOf(exports.listings) = GoodKeys

\* A row without identity, a detail row without any url, then an orphan.
C22_Witness ==
    /\ Returned
    /\ Len(DetailIt) = 3
    /\ _clean(DetailIt[1].row.product_id) = None
    /\ _clean(DetailIt[2].row.product_id) # None /\ BadDetail(DetailIt[2])
    /\ Orphan(DetailIt[3])
    /\ Len(exports.listings) = 1

(***************************************************************************)
(* Raw rows (under SpecExports)                                            *)
(***************************************************************************)
\* The last of the appended outcomes with listing_pk k: the row whose
\* Listing Record survives for k.
Survivor(k) ==
    LET made == Made(workbook)
    IN  made[CHOOSE i \in 1 .. Len(made) :
                /\ made[i].listing.listing_pk = k
                /\ \A j \in i + 1 .. Len(made) :
                      made[j].listing.listing_pk # k]

\* C23: raw_rows holds exactly one Raw Row Record per retained listing_pk,
\* and its source_sheet and source_row are those of the row whose Listing
\* Record survived for that key.
C23_RawRowOfSurvivor ==
    Returned =>
        /\ Len(exports.raw_rows) = Len(exports.listings)
        /\ \A i \in 1 .. Len(exports.listings) :
              /\ exports.raw_rows[i].listing_pk =
                    exports.listings[i].listing_pk
              /\ exports.listings[i] =
                    Survivor(exports.listings[i].listing_pk).listing
              /\ exports.raw_rows[i].source_sheet =
                    Survivor(exports.listings[i].listing_pk).raw.source_sheet
              /\ exports.raw_rows[i].source_row =
                    Survivor(exports.listings[i].listing_pk).raw.source_row

\* One key made by a Catalog row and then by a detail row, whose titles
\* differ: the detail row's records are the ones retained.
C23_Witness ==
    /\ Returned
    /\ Len(exports.listings) = 1
    /\ Len(Made(workbook)) = 2
    /\ Made(workbook)[1].raw.source_sheet = "Catalog"
    /\ Made(workbook)[1].listing.title # Made(workbook)[2].listing.title
    /\ exports.raw_rows[1].source_sheet = "JBG_Detail_Enrichment"

(***************************************************************************)
(* Media manifest (under SpecExports)                                      *)
(***************************************************************************)
s_JBG_1_2 == <<74, 66, 71, 58, 49, 58, 50>>    \* "JBG:1:2"

\* C24: the media manifest has one entry per retained listing, also for a
\* listing without images; image_mappings has one element per image URL of
\* the listing, in the listing's order, with image_index 1..n, source_url
\* the i-th URL and mapping_key "{source}:{source_listing_id}:{index}".
C24_ManifestPerListing ==
    Returned =>
        /\ Len(exports.media_manifest) = Len(exports.listings)
        /\ \A i \in 1 .. Len(exports.listings) :
              /\ exports.media_manifest[i].listing_pk =
                    exports.listings[i].listing_pk
              /\ exports.media_manifest[i].ordered_image_urls =
                    exports.listings[i].images
              /\ DOMAIN exports.media_manifest[i].image_mappings =
                    1 .. Len(exports.listings[i].images)
              /\ \A k \in 1 .. Len(exports.listings[i].images) :
                    /\ exports.media_manifest[i].image_mappings[k].image_index
                          = k
                    /\ exports.media_manifest[i].image_mappings[k].source_url
                          = exports.listings[i].images[k]
                    /\ exports.media_manifest[i].image_mappings[k].mapping_key
                          = exports.listings[i].source \o Colon
                            \o exports.listings[i].source_listing_id
                            \o Colon \o IntDigits(k)

\* A listing without images beside one with two, whose second mapping has
\* the key "JBG:1:2".
C24_Witness ==
    /\ Returned
    /\ \E i, j \in 1 .. Len(exports.listings) :
          /\ exports.listings[i].images = << >>
          /\ exports.media_manifest[i].image_mappings = << >>
          /\ Len(exports.listings[j].images) = 2
          /\ exports.media_manifest[j].image_mappings[2].mapping_key =
                s_JBG_1_2
          /\ exports.media_manifest[j].image_mappings[2].source_url = img2

s_p_JBG_1_02 == <<112, 47, 74, 66, 71, 47, 49, 47, 48, 50, 95>>
    \* "p/JBG/1/02_"

\* The mappings of the manifest, each with the listing it belongs to.
Mappings ==
    UNION {{[l |-> exports.listings[i],
             m |-> exports.media_manifest[i].image_mappings[k]] :
               k \in DOMAIN exports.media_manifest[i].image_mappings} :
           i \in 1 .. Len(exports.media_manifest)}

\* "{prefix}/{source}/{source_listing_id}/{index:02d}_" and the URL that is
\* hashed, written out from the five values.
KeyOf(prefix, source, source_listing_id, index, url) ==
    [path |-> prefix \o Slash \o source \o Slash \o source_listing_id
              \o Slash
              \o (IF index < 10 THEN <<48>> ELSE << >>) \o IntDigits(index)
              \o <<95>>,
     hashed |-> url]

\* C25: the target_storage_key of an image is a function of prefix, source,
\* source_listing_id, index and URL only: every mapping of a manifest has
\* the key written from its own five values, whatever the other rows of the
\* workbook are, and the same workbook exported at another time gives the
\* same manifest.
C25_TargetKeyOfFiveValues ==
    Returned =>
        \E b2_prefix \in Prefixes :
            /\ \A x \in Mappings :
                  x.m.target_storage_key =
                     KeyOf(NormPrefix(b2_prefix), x.l.source,
                           x.l.source_listing_id, x.m.image_index,
                           x.m.source_url)
            /\ exports.media_manifest =
                  build_exports(PathX, workbook, b2_prefix, 1).media_manifest

\* The second image of the listing JBG:1 under the prefix "/p", in a workbook
\* with other rows.
C25_Witness ==
    /\ Returned
    /\ Len(exports.listings) > 1
    /\ \E x \in Mappings :
          /\ x.m.target_storage_key.path = s_p_JBG_1_02
          /\ x.m.target_storage_key.hashed = img2

(***************************************************************************)
(* _norm_images (under SpecFields)                                         *)
(***************************************************************************)
\* The items of the JSON array an images_json value parses to; none when it
\* does not parse to an array.
ParsedItems(v) ==
    IF _safe_json(v, JList(<< >>)).t = "list"
    THEN _safe_json(v, JList(<< >>)).l ELSE << >>

HttpUrl(u) == u # None /\ (StartsWith(u, sHttp) \/ StartsWith(u, sHttps))

\* The elements of items at the indices in at, in increasing order.
Pick(items, at) ==
    [k \in 1 .. Cardinality(at) |->
        items[CHOOSE i \in at : Cardinality({j \in at : j < i}) = k - 1]]

\* The first occurrences of the HTTP(S) URLs among items.
FirstUrls(items) ==
    Pick(items, {i \in 1 .. Len(items) :
                    /\ HttpUrl(items[i])
                    /\ \A j \in 1 .. i - 1 : items[j] # items[i]})

Trimmed(items) == [i \in 1 .. Len(items) |-> _clean(items[i])]

NoRepeat(us) == \A i, j \in 1 .. Len(us) : us[i] = us[j] => i = j

\* C26, as stated: _norm_images returns non-empty http(s) strings without
\* duplicate, the subsequence of the parsed input formed by the first
\* occurrence of each kept URL; the empty list when the value parses to no
\* array; and the same list when applied to its own result.
C26_FirstUrlsOfInput ==
    ReturnedFrom("_norm_images") =>
        /\ \A i \in 1 .. Len(fnret.value) : HttpUrl(fnret.value[i])
        /\ NoRepeat(fnret.value)
        /\ fnret.value = FirstUrls(ParsedItems(fncall.args[1]))
        /\ _norm_images(JList(fnret.value)) = fnret.value

\* C26, amended: the subsequence is taken of the trimmed items.
C26_FirstUrlsOfTrimmedInput ==
    ReturnedFrom("_norm_images") =>
        /\ \A i \in 1 .. Len(fnret.value) : HttpUrl(fnret.value[i])
        /\ NoRepeat(fnret.value)
        /\ fnret.value = FirstUrls(Trimmed(ParsedItems(fncall.args[1])))
        /\ _norm_images(JList(fnret.value)) = fnret.value

\* [" http://x ", "https://y", "http://x"] gives ["http://x", "https://y"].
C26_Witness ==
    /\ ReturnedFrom("_norm_images")
    /\ ParsedItems(fncall.args[1]) = <<Space \o img1 \o Space, img2, img1>>
    /\ fnret.value = <<img1, img2>>

(***************************************************************************)
(* _norm_throw (under SpecFields)                                          *)
(***************************************************************************)
\* The lower-case word occurs in the text, in any mix of cases.
HasWord(text, word) ==
    \E i \in 0 .. Len(text) - Len(word) :
        \A k \in 1 .. Len(word) : text[i + k] \in {word[k], word[k] - 32}

\* Absent, empty or made of white space.
Blank(text) == \A i \in 1 .. Len(text) : text[i] \in {9, 10, 13, 32}

\* C27: _norm_throw gives RHT for a text with "right" or "rht" in any case,
\* otherwise LHT for one with "left" or "lht", otherwise UNK for any other
\* text that is not blank, and null for an absent or blank value.
C27_ThrowHand ==
    ReturnedFrom("_norm_throw") =>
        fnret.value =
            IF Blank(fncall.args[1]) THEN None
            ELSE IF HasWord(fncall.args[1], s_right)
                    \/ HasWord(fncall.args[1], s_rht) THEN s_RHT
            ELSE IF HasWord(fncall.args[1], s_left)
                    \/ HasWord(fncall.args[1], s_lht) THEN s_LHT
            ELSE sUNK

\* A text with both words is RHT.
C27_Witness ==
    /\ ReturnedFrom("_norm_throw")
    /\ fncall.args[1] = s_Left_or_rIGHT
    /\ fnret.value = s_RHT

(***************************************************************************)
(* The artifacts of a call that returned 0 (under Spec)                    *)
(***************************************************************************)
\* Every target_storage_key of a manifest starts with the prefix.
KeysUnder(manifest, prefix) ==
    \A i \in 1 .. Len(manifest) :
        \A k \in DOMAIN manifest[i].image_mappings :
            StartsWith(manifest[i].image_mappings[k].target_storage_key.path,
                       prefix)

\* The directory fs holds what build_exports yields for input file inp and
\* the arguments of call r.
ArtifactsOf(fs, inp, r, now) ==
    /\ fs["normalized"] = Complete(Built[inp.wb][r.b2_prefix][now].listings)
    /\ fs["media"] =
          Complete(Built[inp.wb][r.b2_prefix][now].media_manifest)
    /\ KeysUnder(fs["media"].data, r.b2_prefix)
    /\ r.emit_raw =>
          fs["raw"] = Complete(Built[inp.wb][r.b2_prefix][now].raw_rows)

\* C28: whenever a call of run_import returns 0, after whatever calls came
\* before it, the artifacts on disk are those build_exports yields for this
\* call's arguments: listings and manifest of the given input, every
\* target_storage_key under the given prefix, and listings.raw.jsonl with
\* the raw records of the input when emit_raw is set.
C28_ArtifactsOfTheCall ==
    [][(Called /\ Succeeded(run'))
       => ArtifactsOf(files', input, run', clock)]_vars

\* The same for the calls that executed the export.
C28_ArtifactsOfExecutedCall ==
    [][(Called /\ Succeeded(run') /\ ~log'.skipped)
       => ArtifactsOf(files', input, run', clock)]_vars

\* A call with emit_raw returned 0 by the skip and there is no
\* listings.raw.jsonl.
C28_SkippedWithoutRaw ==
    /\ Succeeded(run) /\ log.skipped /\ run.emit_raw
    /\ ~Exists(files["raw"])
    /\ ~log.dirty

(***************************************************************************)
(* The counts of the report (under SpecListings)                           *)
(***************************************************************************)
\* The sum of the values of a function with a finite domain.
RECURSIVE SumOver(_, _)
SumOver(f, keys) ==
    IF keys = {} THEN 0
    ELSE LET k == CHOOSE x \in keys : TRUE
         IN  f[k] + SumOver(f, keys \ {k})

ImagesRetained ==
    Cardinality(UNION {{<<i, k>> : k \in 1 .. Len(exports.listings[i].images)} :
                       i \in 1 .. Len(exports.listings)})

\* The errors of all rows, in the order of the rows.
RowErrorsMade ==
    [i \in 1 .. Len(Appended(RowOutcomes(workbook), "error")) |->
        Appended(RowOutcomes(workbook), "error")[i].error]

Min(a, b) == IF a <= b THEN a ELSE b

\* C29: in every report of build_exports listings_total is the number of
\* output listings, of manifest rows, the sum of listings_by_source and the
\* sum of listings_by_record_type; media_manifest_images_total is the sum of
\* the image counts of the retained listings; errors_count is the number of
\* all row errors and errors holds the first min(errors_count, 500) of
\* them; listings_total plus errors_count is at most the number of Catalog
\* and JBG_Detail_Enrichment rows scanned.
C29_ReportCounts ==
    Returned =>
        /\ exports.report.listings_total = Len(exports.listings)
        /\ exports.report.media_manifest_rows = Len(exports.listings)
        /\ Len(exports.media_manifest) = Len(exports.listings)
        /\ SumOver(exports.report.listings_by_source,
                   DOMAIN exports.report.listings_by_source)
              = exports.report.listings_total
        /\ SumOver(exports.report.listings_by_record_type,
                   DOMAIN exports.report.listings_by_record_type)
              = exports.report.listings_total
        /\ exports.report.media_manifest_images_total = ImagesRetained
        /\ exports.report.errors_count = Len(RowErrorsMade)
        /\ exports.report.errors_count = BadRows
        /\ Len(exports.report.errors)
              = Min(exports.report.errors_count, ErrorsCap)
        /\ exports.report.errors
              = SubSeq(RowErrorsMade, 1, Len(exports.report.errors))
        /\ exports.report.rows_scanned[1] = Len(CatalogIt)
        /\ exports.report.rows_scanned[3] = Len(DetailIt)
        /\ exports.report.listings_total + exports.report.errors_count
              <= exports.report.rows_scanned[1]
                 + exports.report.rows_scanned[3]

\* More row errors than the report lists.
C29_Witness ==
    /\ Returned
    /\ exports.report.errors_count = ErrorsCap + 1
    /\ Len(exports.report.errors) = ErrorsCap
    /\ exports.report.listings_total = 0

\* Listings of two sources and two record types, one with images.
C29_CountsWitness ==
    /\ Returned
    /\ Cardinality(DOMAIN exports.report.listings_by_source) = 2
    /\ Cardinality(DOMAIN exports.report.listings_by_record_type) = 2
    /\ exports.report.media_manifest_images_total = 2
    /\ exports.report.errors_count = 0

(***************************************************************************)
(* run_import over an output directory left by an earlier run, whose       *)
(* checkpoint file may be damaged                                          *)
(***************************************************************************)
\* The earlier run: content 1 of the input file, exported at time 0
\* without the raw rows.
EarlierRun ==
    [IdleRun EXCEPT !.pc = "returned", !.b2_prefix = sGloveiq,
                    !.fingerprint = _file_fingerprint(InputFile(1, 0))]

\* What the checkpoint file holds: nothing at all (absent), the checkpoint
\* of the earlier run, the checkpoint of a run on another input file, the
\* beginning of a checkpoint, or one of the damaged contents.
CheckpointFiles ==
    {Absent("checkpoint"), Partial("checkpoint"),
     Complete(Content("checkpoint", EarlierRun, Built[1][sGloveiq][0], 0)),
     Complete([Content("checkpoint", EarlierRun, Built[1][sGloveiq][0], 0)
                  EXCEPT !.input_fingerprint.size = 0])}
    \cup {DamagedFile(kind) : kind \in Damaged}

\* The directory with the checkpoint file cp and, of the three files the
\* skip looks for, those in `present`.
LeftBehind(cp, present) ==
    [f \in Artifacts |->
        IF f = "checkpoint" THEN cp
        ELSE IF f \in present
        THEN Complete(Content(f, EarlierRun, Built[1][sGloveiq][0], 0))
        ELSE Absent(f)]

InitCheckpoint ==
    /\ workbook = Workbook(<< >>, << >>, << >>)
    /\ exports = Raised
    /\ phase = "off"
    /\ \E w \in 1 .. Len(RunWorkbooks) : input = InputFile(w, 0)
    /\ clock = 0
    /\ \E cp \in CheckpointFiles,
          present \in SUBSET {"normalized", "media", "report"} :
          files = LeftBehind(cp, present)
    /\ run = IdleRun
    /\ log = EmptyLog
    /\ events = 0
    /\ vresult = NoValidation
    /\ fncall = NoCall
    /\ fnret = NoReturn

NextCheckpoint == RunImport

SpecCheckpoint == InitCheckpoint /\ [][NextCheckpoint]_vars

\* The checkpoint file exists and holds no checkpoint of the input file.
Unusable(file, inp) ==
    /\ Exists(file)
    /\ \/ file.state \in Damaged \cup {"partial"}
       \/ file.data.input_fingerprint # _file_fingerprint(inp)

\* What a call does when there is no checkpoint: no skip, validation, and,
\* when it returns 0, the checkpoint of this call on disk.
AsWithoutCheckpoint ==
    /\ ~log'.skipped
    /\ log'.validated
    /\ Succeeded(run') =>
          /\ files'["checkpoint"].state = "complete"
          /\ files'["checkpoint"].data.input_fingerprint
                = _file_fingerprint(input)

\* C30: a checkpoint file that is empty, truncated, no valid JSON, or JSON
\* without a matching input_fingerprint is treated like a missing one: the
\* call does not raise on it, does not skip, runs the pipeline and
\* overwrites the checkpoint; and no call skips while one of
\* listings.normalized.jsonl, media_manifest.jsonl and import_report.json
\* is missing.
C30_DamagedCheckpointIgnored ==
    [][Called
       => /\ Unusable(files["checkpoint"], input) => AsWithoutCheckpoint
          /\ log'.skipped =>
                /\ Exists(files["normalized"])
                /\ Exists(files["media"])
                /\ Exists(files["report"])]_vars

\* The same for the checkpoint files that can be decoded as UTF-8.
C30_DecodableCheckpointIgnored ==
    [][Called
       => /\ (/\ Unusable(files["checkpoint"], input)
              /\ files["checkpoint"].state # "undecodable")
                => AsWithoutCheckpoint
          /\ log'.skipped =>
                /\ Exists(files["normalized"])
                /\ Exists(files["media"])
                /\ Exists(files["report"])]_vars

\* A call with resume raised before validating anything.
C30_RaisedOnRead ==
    /\ run.pc = "aborted" /\ run.resume /\ ~run.force
    /\ ~log.validated /\ ~log.failed_write
    /\ files["checkpoint"].state = "undecodable"

====
